---- MODULE Spec2Model ----
(***************************************************************************)
(* Zero-trust access decision engine and SOAR playbook executor of         *)
(* security/advanced/zero_trust_architecture.py, with the risk scoring of  *)
(* security/ai_driven/ai_security_monitor.py.                              *)
(*                                                                         *)
(* Scores, confidences and risks are fixed-point numbers in units of       *)
(* 1/10000 (One == 10000 is 1.0).  Python dicts are functions from string  *)
(* keys; a key that a dict does not hold is outside the function's DOMAIN. *)
(***************************************************************************)
EXTENDS Integers, Sequences, FiniteSets, TLC

VARIABLES
    \* ---- SOAREngine ----
    playbooks,          \* SOAREngine.playbooks: playbook name -> sequence of steps
    response_actions,   \* SOAREngine.response_actions: the registered action names
    soar_pc,            \* position of execute_playbook
    playbook_name,      \* execute_playbook's argument
    incident_data,      \* execute_playbook's argument
    step_idx,           \* index of the step the for loop is at
    results,            \* execute_playbook's local list of step results
    calls,              \* the actuator invocations made so far: <<step index, action, merged parameters>>
    playbook,           \* execute_playbook's local: the playbook being executed
    exec_result,        \* what execute_playbook returned (EmptyDict before it returns)
    \* ---- ZeroTrustEngine and its collaborators ----
    user_registry,      \* ZeroTrustEngine.user_registry: user id -> user record
    device_registry,    \* ZeroTrustEngine.device_registry: device id -> device record
    user_profiles,      \* BehavioralAnalytics.user_profiles: user id -> profile
    is_fitted,          \* BehavioralAnalytics.is_fitted
    ioc_database,       \* ThreatIntelligence.ioc_database, in insertion order
    device_behavior_history, \* ZeroTrustEngine.device_behavior_history: device id -> contexts
    access_policies,    \* ZeroTrustEngine.access_policies, in insertion order
    eval_pc,            \* position of evaluate_access_request
    request,            \* evaluate_access_request's argument
    reasoning,          \* its locals identity_verification, device_trust, behavior_analysis, threat_check
    risk_score,         \* its local risk_score
    decision,           \* its local decision
    security_event,     \* its local security_event
    events_logged,      \* how many events _log_security_event has been given
    response,           \* what evaluate_access_request returned
    \* ---- the risk scoring functions applied to drawn arguments ----
    score_args,
    score_result,
    \* ---- ZeroTrustOrchestrator ----
    orch_policies,      \* ZeroTrustOrchestrator.policies, in insertion order
    orch_call,          \* evaluate_access_request's arguments and the clock it read
    orch_decision,      \* what evaluate_access_request returned
    \* ---- ThreatIntelligence at work ----
    feed,               \* the feed document _process_threat_data is working on
    ioc_seen,           \* the latest check_ioc call: its argument and what it returned
    \* ---- concurrent calls of BehavioralAnalytics.update_user_profile ----
    writers,            \* per calling thread: its position and its locals
    profile_objs,       \* the profile dicts that exist
    profile_at,         \* the profile dict user_profiles["alice"] is bound to
    \* ---- the caller of SOAREngine.execute_playbook ----
    cancel_requested    \* the caller has asked for the running execution to be cancelled

soarVars == <<playbooks, response_actions, soar_pc, playbook_name, incident_data,
              step_idx, results, calls, playbook, exec_result>>

engineVars == <<user_registry, device_registry, user_profiles, is_fitted, ioc_database,
                device_behavior_history, access_policies, eval_pc, request, reasoning,
                risk_score, decision, security_event, events_logged, response>>

scoreVars == <<score_args, score_result>>

orchVars == <<orch_policies, orch_call, orch_decision>>

intelVars == <<feed, ioc_seen>>

writerVars == <<writers, profile_objs, profile_at>>

cancelVars == <<cancel_requested>>

vars == <<soarVars, engineVars, scoreVars, orchVars, intelVars, writerVars, cancelVars>>

----------------------------------------------------------------------------
\* Bounds of the model

\* longest playbook that create_playbook is given
MaxSteps == 3

----------------------------------------------------------------------------
\* Python dicts

EmptyDict == [k \in {} |-> ""]

\* {**parameters, **incident_data}: the right operand wins on a key collision
DictMerge(parameters, incident) ==
    [k \in (DOMAIN parameters) \cup (DOMAIN incident) |->
        IF k \in DOMAIN incident THEN incident[k] ELSE parameters[k]]

\* d.get(k): None is modelled as the empty string, which is falsy as well
DictGet(d, k) == IF k \in DOMAIN d THEN d[k] ELSE ""

Truthy(v) == v # ""

----------------------------------------------------------------------------
\* SOAREngine: response actuators

BuiltinActions == {"block_ip", "quarantine_device", "disable_user", "send_alert",
                   "collect_forensics", "escalate_incident"}

\* An actuator plugged into response_actions under its own action name; what it
\* does is not this repository's code: it returns a dict or raises.
CustomAction == "custom_action"

Succeeded(message) == [success |-> TRUE, message |-> message]
Failed(error) == [success |-> FALSE, error |-> error]

\* The six built-in actuators all have this shape: parameters.get(key), success
\* iff the value is truthy.
NeedsKey(parameters, key, done, missing) ==
    LET v == DictGet(parameters, key)
    IN  IF Truthy(v) THEN Succeeded(<<done, v>>) ELSE Failed(<<missing>>)

_block_ip(parameters) ==
    NeedsKey(parameters, "source_ip", "Blocked IP: ", "No IP address provided")

_quarantine_device(parameters) ==
    NeedsKey(parameters, "device_id", "Quarantined device: ", "No device ID provided")

_disable_user(parameters) ==
    NeedsKey(parameters, "user_id", "Disabled user: ", "No user ID provided")

_send_alert(parameters) == Succeeded(<<"Alert sent successfully">>)

_collect_forensics(parameters) ==
    NeedsKey(parameters, "device_id", "Forensics collected from device: ",
             "No device ID provided")

_escalate_incident(parameters) ==
    NeedsKey(parameters, "incident_id", "Escalated incident: ", "No incident ID provided")

\* The dicts a plugged-in actuator may return: success, failure, or a dict
\* that carries no 'success' key.
CustomReturns == {Succeeded(<<"done">>), Failed(<<"refused">>), [message |-> <<"done">>]}

\* The dicts response_actions[action](merged_params) may return
ActuatorReturns(action, parameters) ==
    CASE action = "block_ip"          -> {_block_ip(parameters)}
      [] action = "quarantine_device" -> {_quarantine_device(parameters)}
      [] action = "disable_user"      -> {_disable_user(parameters)}
      [] action = "send_alert"        -> {_send_alert(parameters)}
      [] action = "collect_forensics" -> {_collect_forensics(parameters)}
      [] action = "escalate_incident" -> {_escalate_incident(parameters)}
      [] OTHER                        -> CustomReturns

\* Whether the call may raise instead of returning: the built-in actuators
\* only read their dict and log.
ActuatorMayRaise(action) == action \notin BuiltinActions

----------------------------------------------------------------------------
\* SOAREngine: playbooks and their steps

\* Mutant: a step without the flag does not stop the playbook
StopOnFailureDefaultsFalse(step) ==
    IF "stop_on_failure" \in DOMAIN step THEN step.stop_on_failure ELSE FALSE

\* step.get('stop_on_failure', True)
StopOnFailure(step) ==
    IF "stop_on_failure" \in DOMAIN step THEN step.stop_on_failure ELSE TRUE

\* result.get('success', True)
GetSuccess(result) == IF "success" \in DOMAIN result THEN result.success ELSE TRUE

\* _execute_step's value for a registered action
KnownActionResult(step, result) ==
    [step |-> step.name, action |-> step.action, success |-> GetSuccess(result),
     result |-> result]

\* Mutant: an unregistered action is skipped as if it had succeeded
UnknownActionSkipped(step) ==
    [step |-> step.name, action |-> step.action, success |-> TRUE,
     error |-> <<"Unknown action: ", step.action>>]

\* _execute_step's value for an action that is not registered
UnknownActionResult(step) ==
    [step |-> step.name, action |-> step.action, success |-> FALSE,
     error |-> <<"Unknown action: ", step.action>>]

\* what execute_playbook's except branch records
ExceptionResult(step) ==
    [step |-> step.name, success |-> FALSE, error |-> <<"actuator raised">>]

\* Mutant: every failed step stops the playbook, whatever its flag
BreaksOnAnyFailure(step, result) == ~result.success

\* execute_playbook's test after a step that returned
BreaksLoop(step, result) == ~result.success /\ StopOnFailure(step)

\* all(r['success'] for r in results)
OverallSuccess(rs) == \A i \in 1..Len(rs) : rs[i].success

\* execute_playbook's return value (execution_time left out)
ExecutionResult(name, rs) ==
    [playbook_name |-> name, results |-> rs, overall_success |-> OverallSuccess(rs)]

Step(name, action, parameters) ==
    [name |-> name, action |-> action, parameters |-> parameters]

WithStop(step, flag) ==
    [k \in DOMAIN step \cup {"stop_on_failure"} |->
        IF k = "stop_on_failure" THEN flag ELSE step[k]]

Playbook(name, steps) == [name |-> name, steps |-> steps]

\* ZeroTrustEngine._setup_soar_playbooks
HighRiskIncident ==
    Playbook("high_risk_incident",
        << WithStop(Step("Immediate Response", "send_alert",
                         [k \in {"severity"} |-> "critical"]), FALSE),
           WithStop(Step("Block Source", "block_ip", EmptyDict), FALSE),
           WithStop(Step("Collect Evidence", "collect_forensics", EmptyDict), FALSE),
           WithStop(Step("Escalate Incident", "escalate_incident", EmptyDict), FALSE) >>)

SuspiciousActivity ==
    Playbook("suspicious_activity",
        << WithStop(Step("Send Alert", "send_alert",
                         [k \in {"severity"} |-> "medium"]), FALSE),
           WithStop(Step("Monitor Closely", "send_alert",
                         [k \in {"message"} |-> "Increased monitoring activated"]), FALSE) >>)

DefaultPlaybooks ==
    [n \in {"high_risk_incident", "suspicious_activity"} |->
        IF n = "high_risk_incident" THEN HighRiskIncident ELSE SuspiciousActivity]

----------------------------------------------------------------------------
\* SOAREngine: inputs of the model

CustomPlaybook == "custom"

\* the steps create_playbook is given
StepPool ==
    { Step("Block Source", "block_ip", [k \in {"source_ip"} |-> "10.0.0.9"]),
      WithStop(Step("Send Alert", "send_alert", [k \in {"severity"} |-> "medium"]), FALSE),
      WithStop(Step("Custom Step", CustomAction, EmptyDict), TRUE),
      WithStop(Step("Custom Step", CustomAction, EmptyDict), FALSE),
      Step("Custom Step", CustomAction, EmptyDict) }

StepSeqs == UNION { [1..n -> StepPool] : n \in 0..MaxSteps }

\* the incident data execute_playbook is given: nothing, what asdict(event)
\* carries, and what tests/security/test_zero_trust_engine.py passes
IncidentPool ==
    { EmptyDict,
      [k \in {"source_ip", "user_id", "severity"} |->
          CASE k = "source_ip" -> "1.2.3.4"
            [] k = "user_id"   -> "alice"
            [] OTHER           -> "ThreatLevel.HIGH"],
      [k \in {"source_ip", "device_id", "user_id", "incident_id"} |->
          CASE k = "source_ip" -> "10.20.30.40"
            [] k = "device_id" -> "compromised_device"
            [] k = "user_id"   -> "compromised_user"
            [] OTHER           -> "incident-123"] }

ExecNames == {"high_risk_incident", CustomPlaybook, "no_such_playbook"}

----------------------------------------------------------------------------
\* SOAREngine: operations

SoarAtRest == soar_pc \in {"idle", "returned", "raised"}

\* SOAREngine.create_playbook.  Playbooks are configuration: each is created
\* once, before the first execution.
CreatePlaybook(name, steps) ==
    /\ soar_pc = "idle"
    /\ name \notin DOMAIN playbooks
    /\ playbooks' = [n \in DOMAIN playbooks \cup {name} |->
                        IF n = name THEN Playbook(name, steps) ELSE playbooks[n]]
    /\ UNCHANGED <<response_actions, soar_pc, playbook_name, incident_data, step_idx,
                   results, calls, playbook, exec_result>>
    /\ UNCHANGED <<engineVars, scoreVars, orchVars, intelVars, writerVars, cancelVars>>

\* response_actions[CustomAction] = <an actuator>
RegisterAction ==
    /\ soar_pc = "idle"
    /\ CustomAction \notin response_actions
    /\ response_actions' = response_actions \cup {CustomAction}
    /\ UNCHANGED <<playbooks, soar_pc, playbook_name, incident_data, step_idx,
                   results, calls, playbook, exec_result>>
    /\ UNCHANGED <<engineVars, scoreVars, orchVars, intelVars, writerVars, cancelVars>>

\* execute_playbook up to the for loop: an unknown name raises ValueError
BeginExecution(name, data) ==
    /\ playbook_name' = name
    /\ incident_data' = data
    /\ results' = <<>>
    /\ calls' = <<>>
    /\ step_idx' = 1
    /\ exec_result' = EmptyDict
    /\ IF name \in DOMAIN playbooks
          THEN soar_pc' = "loop" /\ playbook' = playbooks[name]
          ELSE soar_pc' = "raised" /\ playbook' = Playbook(name, <<>>)

ExecutePlaybook(name, data) ==
    /\ SoarAtRest
    /\ BeginExecution(name, data)
    /\ UNCHANGED <<playbooks, response_actions>>
    /\ UNCHANGED <<engineVars, scoreVars, orchVars, intelVars, writerVars, cancelVars>>

AtStep == soar_pc = "loop" /\ step_idx <= Len(playbook.steps)

CurrentStep == playbook.steps[step_idx]

\* step.get('parameters', {})
StepParameters(step) ==
    IF "parameters" \in DOMAIN step THEN step.parameters ELSE EmptyDict

\* Mutant: after a step that does not break the loop, the next step is skipped
SkipsNextStep(r) ==
    /\ results' = Append(results, r)
    /\ IF BreaksLoop(CurrentStep, r)
          THEN soar_pc' = "broke" /\ step_idx' = step_idx
          ELSE soar_pc' = "loop" /\ step_idx' = step_idx + 2

\* the loop after a step has put `r` into results: break, or the next step
AfterStep(r) ==
    /\ results' = Append(results, r)
    /\ IF BreaksLoop(CurrentStep, r)
          THEN soar_pc' = "broke" /\ step_idx' = step_idx
          ELSE soar_pc' = "loop" /\ step_idx' = step_idx + 1

\* _execute_step, else branch: the action is not registered
StepUnknown ==
    /\ AtStep
    /\ CurrentStep.action \notin response_actions
    /\ AfterStep(UnknownActionResult(CurrentStep))
    /\ UNCHANGED <<playbooks, response_actions, playbook_name, incident_data, calls,
                   playbook, exec_result>>
    /\ UNCHANGED <<engineVars, scoreVars, orchVars, intelVars, writerVars, cancelVars>>

\* _execute_step up to the call of the actuator with the merged parameters
StepInvoke ==
    /\ AtStep
    /\ CurrentStep.action \in response_actions
    /\ calls' = Append(calls, [step |-> step_idx, action |-> CurrentStep.action,
                               parameters |-> DictMerge(StepParameters(CurrentStep),
                                                        incident_data)])
    /\ soar_pc' = "in_actuator"
    /\ UNCHANGED <<playbooks, response_actions, playbook_name, incident_data, step_idx,
                   results, playbook, exec_result>>
    /\ UNCHANGED <<engineVars, scoreVars, orchVars, intelVars, writerVars, cancelVars>>

\* the actuator returns its dict
ActuatorReturn ==
    /\ soar_pc = "in_actuator"
    /\ \E ret \in ActuatorReturns(CurrentStep.action, calls[Len(calls)].parameters) :
           AfterStep(KnownActionResult(CurrentStep, ret))
    /\ UNCHANGED <<playbooks, response_actions, playbook_name, incident_data, calls,
                   playbook, exec_result>>
    /\ UNCHANGED <<engineVars, scoreVars, orchVars, intelVars, writerVars, cancelVars>>

\* the actuator raises: execute_playbook's except branch records it and breaks
ActuatorRaise ==
    /\ soar_pc = "in_actuator"
    /\ ActuatorMayRaise(CurrentStep.action)
    /\ results' = Append(results, ExceptionResult(CurrentStep))
    /\ soar_pc' = "broke"
    /\ UNCHANGED <<playbooks, response_actions, playbook_name, incident_data, step_idx,
                   calls, playbook, exec_result>>
    /\ UNCHANGED <<engineVars, scoreVars, orchVars, intelVars, writerVars, cancelVars>>

LoopOver == soar_pc = "broke" \/ (soar_pc = "loop" /\ step_idx > Len(playbook.steps))

\* execute_playbook's return statement
PlaybookReturn ==
    /\ LoopOver
    /\ exec_result' = ExecutionResult(playbook_name, results)
    /\ soar_pc' = "returned"
    /\ UNCHANGED <<playbooks, response_actions, playbook_name, incident_data, step_idx,
                   results, calls, playbook>>
    /\ UNCHANGED <<engineVars, scoreVars, orchVars, intelVars, writerVars, cancelVars>>

\* SOAREngine.__init__ and ZeroTrustEngine._setup_soar_playbooks
InitSOAR ==
    /\ playbooks = DefaultPlaybooks
    /\ response_actions = BuiltinActions
    /\ soar_pc = "idle"
    /\ playbook_name = ""
    /\ incident_data = EmptyDict
    /\ step_idx = 1
    /\ results = <<>>
    /\ calls = <<>>
    /\ playbook = Playbook("", <<>>)
    /\ exec_result = EmptyDict

----------------------------------------------------------------------------
\* Scores.  A score x in [0, 1] is the integer x * One; the weights of the
\* weighted sums are written in tenths.

One == 10000

Min(a, b) == IF a <= b THEN a ELSE b

Max(a, b) == IF a >= b THEN a ELSE b

RECURSIVE SumSeq(_)
SumSeq(s) == IF s = <<>> THEN 0 ELSE Head(s) + SumSeq(Tail(s))

RECURSIVE MaxSeq(_)
MaxSeq(s) == IF Len(s) = 1 THEN s[1] ELSE Max(Head(s), MaxSeq(Tail(s)))

\* a risk score returned as it was computed, without the clamp
Unclamped(x) == x

\* min(1.0, max(0.0, x))
Clamp01(x) == Min(One, Max(0, x))

\* sum(w * r for w, r in zip(ws, rs)): zip stops at the shorter sequence.
\* The factors in use are multiples of 10, so the division is exact.
WeightedSum(ws, rs) ==
    SumSeq([i \in 1..Min(Len(ws), Len(rs)) |-> ws[i] * rs[i]]) \div 10

\* d.get(k, default)
GetOr(d, k, default) == IF k \in DOMAIN d THEN d[k] ELSE default

\* Mutant: a full list drops its second oldest entry, not its oldest
KeepsOldest(seq, n) ==
    IF Len(seq) > n THEN <<seq[1]>> \o SubSeq(seq, Len(seq) - n + 2, Len(seq)) ELSE seq

\* seq[-n:]
LastN(seq, n) == IF Len(seq) > n THEN SubSeq(seq, Len(seq) - n + 1, Len(seq)) ELSE seq

----------------------------------------------------------------------------
\* ZeroTrustEngine: identity

\* pyotp.TOTP(secret).now(): the code that is valid for the secret at present
TotpNow(secret) == IF secret = "JBSWY3DPEHPK3PXP" THEN "492039" ELSE "000000"

\* pyotp.TOTP(secret).verify(code)
TotpVerify(secret, code) == code = TotpNow(secret)

\* ZeroTrustEngine.register_user's record; the configuration is the default
\* one (no file), so mfa.required_for_admins is False
UserRecord(user_id, user_data) ==
    [id            |-> user_id,
     role          |-> GetOr(user_data, "role", "user"),
     mfa_enabled   |-> GetOr(user_data, "mfa_enabled", FALSE),
     totp_secret   |-> "JBSWY3DPEHPK3PXP"]

_verify_mfa(user_id, context) ==
    IF user_id \notin DOMAIN user_registry THEN FALSE
    ELSE IF ~user_registry[user_id].mfa_enabled THEN TRUE
    ELSE IF context.totp_code = "" THEN FALSE
    ELSE TotpVerify(user_registry[user_id].totp_secret, context.totp_code)

\* confidence: 0.4 for the password, 0.4 for MFA, 0.2 for the biometric
Confidence(password_verified, mfa_verified, biometric_verified) ==
    (IF password_verified THEN 4000 ELSE 0)
    + (IF mfa_verified THEN 4000 ELSE 0)
    + (IF biometric_verified THEN 2000 ELSE 0)

\* confidence > 0.6 as binary floating point decides it: 0.0 + 0.4 + 0.2 is
\* 0.6000000000000001, which exceeds 0.6
ConfidenceExceeds06(password_verified, mfa_verified, biometric_verified) ==
    \/ Confidence(password_verified, mfa_verified, biometric_verified) > 6000
    \/ password_verified /\ ~mfa_verified /\ biometric_verified

_verify_identity(user_id, context) ==
    IF user_id \notin DOMAIN user_registry
    THEN [verified |-> FALSE, confidence |-> 0, reason |-> "User not found"]
    ELSE LET password_verified  == TRUE
             mfa_verified       == _verify_mfa(user_id, context)
             biometric_verified == TRUE
         IN  [verified   |-> ConfidenceExceeds06(password_verified, mfa_verified,
                                                 biometric_verified),
              confidence |-> Confidence(password_verified, mfa_verified,
                                        biometric_verified),
              factors    |-> [password  |-> password_verified,
                              mfa       |-> mfa_verified,
                              biometric |-> biometric_verified]]

----------------------------------------------------------------------------
\* ZeroTrustEngine: device trust.  A location is <<latitude, longitude>> in
\* hundredths of a degree; distances are compared by their squares.

SqDist(a, b) == (a[1] - b[1]) * (a[1] - b[1]) + (a[2] - b[2]) * (a[2] - b[2])

\* ZeroTrustEngine.register_device's record (default configuration)
DeviceRecord(device_id, device_data) ==
    [id                  |-> device_id,
     antivirus_installed |-> GetOr(device_data, "antivirus_installed", FALSE),
     encryption_enabled  |-> GetOr(device_data, "encryption_enabled", FALSE),
     os_updated          |-> GetOr(device_data, "os_updated", FALSE),
     screen_lock_enabled |-> GetOr(device_data, "screen_lock_enabled", FALSE),
     expected_locations  |-> GetOr(device_data, "expected_locations", <<>>)]

_check_device_compliance(device) ==
    (IF device.antivirus_installed THEN 3000 ELSE 0)
    + (IF device.encryption_enabled THEN 3000 ELSE 0)
    + (IF device.os_updated THEN 2000 ELSE 0)
    + (IF device.screen_lock_enabled THEN 2000 ELSE 0)

_check_device_location(device, current_location) ==
    LET expected_locations == device.expected_locations
        Within(sq) == \E i \in 1..Len(expected_locations) :
                          SqDist(current_location, expected_locations[i]) < sq
    IN  IF expected_locations = <<>> THEN 5000
        ELSE IF Within(1) THEN One          \* min_distance < 0.01
        ELSE IF Within(100) THEN 8000       \* min_distance < 0.1
        ELSE IF Within(10000) THEN 6000     \* min_distance < 1.0
        ELSE 2000

\* With n entries in the history, |x - mean| < c is |n*x - sum| < n*c.
_check_device_behavior(device_id, context) ==
    IF device_id \notin DOMAIN device_behavior_history THEN 5000
    ELSE LET history == device_behavior_history[device_id]
             n       == Len(history)
             sum_lat == SumSeq([i \in 1..n |-> history[i].location[1]])
             sum_lon == SumSeq([i \in 1..n |-> history[i].location[2]])
             sum_hr  == SumSeq([i \in 1..n |-> history[i].hour])
             dlat    == n * context.location[1] - sum_lat
             dlon    == n * context.location[2] - sum_lon
             dhr     == n * context.hour - sum_hr
             location_ok == dlat * dlat + dlon * dlon < (100 * n) * (100 * n)
             network_ok  == \E i \in 1..n : history[i].network = context.network
             time_ok     == (IF dhr >= 0 THEN dhr ELSE -dhr) < 4 * n
         IN  Min(One, (IF location_ok THEN 4000 ELSE 0)
                      + (IF network_ok THEN 3000 ELSE 0)
                      + (IF time_ok THEN 3000 ELSE 0))

\* Mutant: a device that is not registered gets the neutral score
NeutralForUnknownDevice(device_id, context) ==
    [trusted |-> FALSE, score |-> 5000, reason |-> "Device not registered"]

_assess_device_trust(device_id, context) ==
    IF device_id \notin DOMAIN device_registry
    THEN [trusted |-> FALSE, score |-> 0, reason |-> "Device not registered"]
    ELSE LET device           == device_registry[device_id]
             compliance_score == _check_device_compliance(device)
             location_score   == _check_device_location(device, context.location)
             behavior_score   == _check_device_behavior(device_id, context)
             trust_score      == WeightedSum(<<4, 3, 3>>,
                                     <<compliance_score, location_score, behavior_score>>)
         IN  [trusted |-> trust_score > 6000,
              score   |-> trust_score,
              factors |-> [compliance |-> compliance_score,
                           location   |-> location_score,
                           behavior   |-> behavior_score]]

----------------------------------------------------------------------------
\* BehavioralAnalytics

ProfileHistoryLimit == 1000

EmptyProfile ==
    [login_times       |-> <<>>,
     access_patterns   |-> <<>>,
     device_usage      |-> <<>>,
     location_patterns |-> <<>>,
     resource_access   |-> <<>>,
     session_durations |-> <<>>]

\* one list of the profile after update_user_profile: the datum is appended
\* when behavior_data has the key, and the list keeps its last 1000 entries
ProfileList(list, behavior_data, key) ==
    LastN(IF key \in DOMAIN behavior_data THEN Append(list, behavior_data[key]) ELSE list,
          ProfileHistoryLimit)

UpdatedProfile(profile, behavior_data) ==
    [login_times       |-> ProfileList(profile.login_times, behavior_data, "login_time"),
     access_patterns   |-> ProfileList(profile.access_patterns, behavior_data, "access_pattern"),
     device_usage      |-> ProfileList(profile.device_usage, behavior_data, "device_info"),
     location_patterns |-> ProfileList(profile.location_patterns, behavior_data, "location"),
     resource_access   |-> ProfileList(profile.resource_access, behavior_data, "resource"),
     session_durations |-> ProfileList(profile.session_durations, behavior_data, "session_duration")]

\* _train_anomaly_detector: a profile with more than 10 login times has its
\* features extracted with current_behavior = {}, where the default of
\* .get('login_time', datetime.now().hour) is an int and `.hour` of it raises
\* AttributeError; with no such profile nothing is fitted.
TrainingRaises ==
    \E u \in DOMAIN user_profiles : Len(user_profiles[u].login_times) > 10

\* The exception detect_anomalies raises ("" when it returns).  For a user
\* with a profile and a detector that is not fitted, either training raises
\* or it fits nothing and decision_function raises NotFittedError.
DetectAnomaliesError(user_id) ==
    IF user_id \notin DOMAIN user_profiles \/ is_fitted THEN ""
    ELSE IF TrainingRaises THEN "AttributeError"
    ELSE "NotFittedError"

\* detect_anomalies when it returns; anomaly_score is what the fitted
\* IsolationForest's decision_function gives for the features, and predict
\* is -1 for a negative score
detect_anomalies(user_id, anomaly_score) ==
    IF user_id \notin DOMAIN user_profiles
    THEN [anomaly_detected |-> FALSE, risk_score |-> 0]
    ELSE [anomaly_detected |-> anomaly_score < 0,
          anomaly_score    |-> anomaly_score,
          risk_score       |-> Clamp01((One - anomaly_score) \div 2)]

----------------------------------------------------------------------------
\* ThreatIntelligence.  ioc_database is the dict as the sequence of its
\* items in insertion order.

\* [int(x) for x in ip.split('.')]
ParseOctets(ip) ==
    CASE ip = "10.0.0.5"    -> <<10, 0, 0, 5>>
      [] ip = "10.0.0.05"   -> <<10, 0, 0, 5>>
      [] ip = "10.0.0.77"   -> <<10, 0, 0, 77>>
      [] ip = "192.168.1.9" -> <<192, 168, 1, 9>>
      [] OTHER              -> <<>>

RECURSIVE LeadingMatches(_, _)
LeadingMatches(parts1, parts2) ==
    IF parts1 = <<>> \/ parts2 = <<>> \/ Head(parts1) # Head(parts2) THEN 0
    ELSE 1 + LeadingMatches(Tail(parts1), Tail(parts2))

_ip_similarity(ip1, ip2) ==
    LET parts1 == ParseOctets(ip1)
        parts2 == ParseOctets(ip2)
    IN  IF Len(parts1) # 4 \/ Len(parts2) # 4 THEN 0
        ELSE 2500 * LeadingMatches(parts1, parts2)

\* the entry _process_threat_data stores for one indicator of an 'ioc' feed
IocInfo(ioc) ==
    [type         |-> ioc.type,
     threat_level |-> GetOr(ioc, "threat_level", "medium"),
     description  |-> GetOr(ioc, "description", ""),
     source       |-> "ioc"]

\* database[value] = info: a present key keeps its place, a new one goes last
DictPut(database, value, info) ==
    IF \E i \in 1..Len(database) : database[i].value = value
    THEN [i \in 1..Len(database) |->
             IF database[i].value = value THEN [value |-> value, info |-> info]
             ELSE database[i]]
    ELSE Append(database, [value |-> value, info |-> info])

RECURSIVE ProcessIndicators(_, _)
ProcessIndicators(database, indicators) ==
    IF indicators = <<>> THEN database
    ELSE ProcessIndicators(DictPut(database, Head(indicators).value, IocInfo(Head(indicators))),
                           Tail(indicators))

check_ioc(value, ioc_type) ==
    LET exact == {i \in 1..Len(ioc_database) : ioc_database[i].value = value}
        fuzzy == {i \in 1..Len(ioc_database) :
                     ioc_type = "ip" /\ _ip_similarity(value, ioc_database[i].value) > 8000}
        First(S) == CHOOSE i \in S : \A j \in S : i <= j
    IN  IF exact # {}
        THEN [is_ioc       |-> TRUE,
              threat_level |-> ioc_database[First(exact)].info.threat_level,
              confidence   |-> 9000]
        ELSE IF fuzzy # {}
        THEN [is_ioc       |-> TRUE,
              threat_level |-> ioc_database[First(fuzzy)].info.threat_level,
              similar      |-> TRUE,
              confidence   |-> 7000]
        ELSE [is_ioc |-> FALSE, confidence |-> 0]

----------------------------------------------------------------------------
\* Risk

\* ZeroTrustEngine._calculate_risk_score
_calculate_risk_score(identity_verification, device_trust, behavior_analysis, threat_check) ==
    LET identity_risk == IF ~identity_verification.verified THEN 8000
                         ELSE One - identity_verification.confidence
        device_risk   == IF ~device_trust.trusted THEN 7000
                         ELSE One - device_trust.score
        behavior_risk == behavior_analysis.risk_score
        threat_risk   == IF threat_check.is_ioc
                         THEN CASE threat_check.threat_level = "high"   -> 9000
                                [] threat_check.threat_level = "medium" -> 6000
                                [] OTHER                                -> 3000
                         ELSE 0
        weights       == <<2, 4, 3, 1>>
    IN  Clamp01(WeightedSum(weights,
                            <<identity_risk, device_risk, behavior_risk, threat_risk>>))

\* AISecurityMonitor._calculate_risk_score: a factor is appended only when
\* its source has something to say, and the weights are zipped by position
AISecurityMonitor_calculate_risk_score(anomalies, behavioral_analysis, threat_intel_matches, base_risk_score) ==
    LET risk_factors ==
            (IF anomalies # <<>>
                THEN <<MaxSeq([i \in 1..Len(anomalies) |->
                                  GetOr(anomalies[i], "anomaly_score", 0)])>>
                ELSE <<>>)
            \o (IF GetOr(behavioral_analysis, "anomaly_detected", FALSE)
                   THEN <<GetOr(behavioral_analysis, "risk_score", 0)>>
                   ELSE <<>>)
            \o (IF threat_intel_matches # <<>>
                   THEN <<MaxSeq([i \in 1..Len(threat_intel_matches) |->
                                     GetOr(threat_intel_matches[i], "confidence", 0)])>>
                   ELSE <<>>)
            \o <<base_risk_score>>
        weights == <<3, 3, 2, 2>>
    IN  Clamp01(WeightedSum(SubSeq(weights, 1, Len(risk_factors)), risk_factors))

\* _map_risk_to_threat_level
_map_risk_to_threat_level(risk) ==
    IF risk >= 8000 THEN "ThreatLevel.CRITICAL"
    ELSE IF risk >= 6000 THEN "ThreatLevel.HIGH"
    ELSE IF risk >= 4000 THEN "ThreatLevel.MEDIUM"
    ELSE "ThreatLevel.LOW"

----------------------------------------------------------------------------
\* ZeroTrustEngine: access policies.  access_policies is the dict as the
\* sequence of its items in insertion order; a policy's `id` is its key.

Policy(id, name, conditions, actions, priority) ==
    [id |-> id, name |-> name, conditions |-> conditions, actions |-> actions,
     priority |-> priority]

\* _setup_default_policies
DefaultPolicies ==
    << Policy("default", "Default Policy", <<>>, <<"challenge">>, 100),
       Policy("high_risk", "High Risk Policy",
              <<"risk_score > 0.7", "anomaly_detected">>, <<"deny", "alert">>, 1),
       Policy("admin_access", "Admin Access Policy",
              <<"role == admin", "mfa_verified">>, <<"allow">>, 10) >>

\* the policies in the order of the dict, not sorted
UnsortedPolicies(policies) == policies

\* sorted() is stable: p goes after every policy whose priority is not larger
RECURSIVE InsertByPriority(_, _)
InsertByPriority(sorted, p) ==
    IF sorted = <<>> THEN <<p>>
    ELSE IF Head(sorted).priority <= p.priority
         THEN <<Head(sorted)>> \o InsertByPriority(Tail(sorted), p)
         ELSE <<p>> \o sorted

\* sorted(self.access_policies.items(), key=lambda x: x[1]['priority'])
RECURSIVE sorted_policies(_)
sorted_policies(policies) ==
    IF policies = <<>> THEN <<>>
    ELSE InsertByPriority(sorted_policies(SubSeq(policies, 1, Len(policies) - 1)),
                          policies[Len(policies)])

\* What the substring tests of _evaluate_condition, taken in their order, and
\* float(condition.split('>')[1].strip()) make of the condition texts in use.
\* float('high') raises ValueError: that condition has no threshold.
ParsedCondition(condition) ==
    CASE condition = "risk_score > 0.7"  -> [test |-> "risk_score >", threshold |-> 7000]
      [] condition = "risk_score > 0.3"  -> [test |-> "risk_score >", threshold |-> 3000]
      [] condition = "risk_score > high" -> [test |-> "risk_score >"]
      [] condition = "anomaly_detected"  -> [test |-> "anomaly_detected"]
      [] condition = "role == admin"     -> [test |-> "role ==", role |-> "admin"]
      [] condition = "mfa_verified"      -> [test |-> "mfa_verified"]
      [] OTHER                           -> [test |-> "else"]

\* Mutant: the role test finds the role it asks for in the context
RoleFoundInContext(condition, context) ==
    LET parsed == ParsedCondition(condition)
    IN  CASE parsed.test = "risk_score >" ->
                 IF "threshold" \in DOMAIN parsed
                    THEN context.risk_score > parsed.threshold
                    ELSE FALSE
          [] parsed.test = "anomaly_detected" -> TRUE
          [] parsed.test = "role ==" -> TRUE
          [] parsed.test = "mfa_verified" -> TRUE
          [] OTHER -> FALSE

\* an exception inside is caught and makes the condition False
_evaluate_condition(condition, context) ==
    LET parsed == ParsedCondition(condition)
    IN  CASE parsed.test = "risk_score >" ->
                 IF "threshold" \in DOMAIN parsed
                    THEN context.risk_score > parsed.threshold
                    ELSE FALSE
          [] parsed.test = "anomaly_detected" -> TRUE
          [] parsed.test = "role ==" ->
                 "role" \in DOMAIN context /\ context.role = parsed.role
          [] parsed.test = "mfa_verified" -> TRUE
          [] OTHER -> FALSE

_evaluate_policy_conditions(conditions, req, risk) ==
    LET context == [risk_score |-> risk,
                    user_id    |-> req.user_id,
                    resource   |-> req.resource,
                    action     |-> req.action,
                    source_ip  |-> req.context.source_ip,
                    device_id  |-> req.context.device_id,
                    location   |-> req.context.location]
    IN  \A i \in 1..Len(conditions) : _evaluate_condition(conditions[i], context)

\* Mutant: a request no policy matches is denied
DefaultDeny ==
    [action |-> "deny", policy |-> "default", reason |-> "No specific policy matched"]

\* the dict _apply_access_policies returns after its loop
DefaultDecision ==
    [action |-> "challenge", policy |-> "default", reason |-> "No specific policy matched"]

_apply_access_policies(req, risk) ==
    LET sorted   == sorted_policies(access_policies)
        matching == {i \in 1..Len(sorted) :
                        _evaluate_policy_conditions(sorted[i].conditions, req, risk)}
    IN  IF matching # {}
        THEN LET policy == sorted[CHOOSE i \in matching : \A j \in matching : i <= j]
             IN  [action |-> policy.actions[1],
                  policy |-> policy.id,
                  reason |-> policy.name]
        ELSE DefaultDecision

----------------------------------------------------------------------------
\* ZeroTrustEngine: inputs

MaxEvals == 2       \* security events logged
MaxSamples == 1     \* behaviour samples per user profile

Home == <<4071, -7400>>
Away == <<4221, -7400>>

UserContext(device_id, source_ip, location, network, hour, totp_code) ==
    [device_id |-> device_id, source_ip |-> source_ip, location |-> location,
     network |-> network, hour |-> hour, totp_code |-> totp_code]

AccessRequest(request_id, user_id, resource, action, context) ==
    [request_id |-> request_id, user_id |-> user_id, resource |-> resource,
     action |-> action, context |-> context]

Requests ==
    { AccessRequest("r1", "alice", "/api/invoices", "read",
                    UserContext("laptop", "192.168.1.9", Home, "corporate", 9, "492039")),
      AccessRequest("r2", "alice", "/api/invoices", "read",
                    UserContext("laptop", "10.0.0.5", Away, "cafe", 23, "")),
      AccessRequest("r3", "ghost", "/api/admin", "write",
                    UserContext("rogue", "10.0.0.05", Away, "cafe", 23, "")),
      AccessRequest("r4", "ghost", "/api/admin", "write",
                    UserContext("rogue", "192.168.1.9", Home, "corporate", 9, "")) }

UserPool == {"alice"}

UserDataPool == { [role |-> "admin", mfa_enabled |-> TRUE] }

DevicePool == {"laptop"}

DeviceDataPool ==
    { [antivirus_installed |-> TRUE, encryption_enabled |-> TRUE, os_updated |-> TRUE,
       screen_lock_enabled |-> TRUE, expected_locations |-> <<Home>>] }

ProfiledUsers == {"alice", "ghost"}

BehaviorDataPool ==
    { [login_time |-> 9, location |-> Home, device_info |-> "laptop",
       resource |-> "/api/invoices", session_duration |-> 30] }

\* the 'indicators' of one feed document
IndicatorBatches ==
    { << [value |-> "10.0.0.05", type |-> "ip", threat_level |-> "high"] >>,
      << [value |-> "10.0.0.05", type |-> "ip"] >> }

\* decision_function's value for the request's features, in units of 1/One
AnomalyScores == {5000, -2000, -15000}

----------------------------------------------------------------------------
\* ZeroTrustEngine: operations

AlertThreshold == 7000

DeviceHistoryLimit == 10

EngineAtRest == eval_pc \in {"idle", "returned", "raised"}

\* dict[key] = value
Put(dict, key, value) ==
    [k \in DOMAIN dict \cup {key} |-> IF k = key THEN value ELSE dict[k]]

RegisterUser(user_id, user_data) ==
    /\ EngineAtRest
    /\ user_registry' = Put(user_registry, user_id, UserRecord(user_id, user_data))
    /\ UNCHANGED <<device_registry, user_profiles, is_fitted, ioc_database,
                   device_behavior_history, access_policies, eval_pc, request, reasoning,
                   risk_score, decision, security_event, events_logged, response>>
    /\ UNCHANGED <<soarVars, scoreVars, orchVars, intelVars, writerVars, cancelVars>>

RegisterDevice(device_id, device_data) ==
    /\ EngineAtRest
    /\ device_registry' = Put(device_registry, device_id, DeviceRecord(device_id, device_data))
    /\ UNCHANGED <<user_registry, user_profiles, is_fitted, ioc_database,
                   device_behavior_history, access_policies, eval_pc, request, reasoning,
                   risk_score, decision, security_event, events_logged, response>>
    /\ UNCHANGED <<soarVars, scoreVars, orchVars, intelVars, writerVars, cancelVars>>

\* BehavioralAnalytics.update_user_profile
UpdateUserProfile(user_id, behavior_data) ==
    /\ EngineAtRest
    /\ LET profile == IF user_id \in DOMAIN user_profiles THEN user_profiles[user_id]
                      ELSE EmptyProfile
       IN  /\ Len(profile.login_times) < MaxSamples
           /\ user_profiles' = Put(user_profiles, user_id,
                                   UpdatedProfile(profile, behavior_data))
    /\ UNCHANGED <<user_registry, device_registry, is_fitted, ioc_database,
                   device_behavior_history, access_policies, eval_pc, request, reasoning,
                   risk_score, decision, security_event, events_logged, response>>
    /\ UNCHANGED <<soarVars, scoreVars, orchVars, intelVars, writerVars, cancelVars>>

\* The application fits behavioral_analytics.anomaly_detector itself and sets
\* is_fitted, as the last two statements of _train_anomaly_detector would.
FitAnomalyDetector ==
    /\ EngineAtRest
    /\ ~is_fitted
    /\ is_fitted' = TRUE
    /\ UNCHANGED <<user_registry, device_registry, user_profiles, ioc_database,
                   device_behavior_history, access_policies, eval_pc, request, reasoning,
                   risk_score, decision, security_event, events_logged, response>>
    /\ UNCHANGED <<soarVars, scoreVars, orchVars, intelVars, writerVars, cancelVars>>

\* ThreatIntelligence._process_threat_data(data, 'ioc')
ProcessThreatData(indicators) ==
    /\ EngineAtRest
    /\ ioc_database' = ProcessIndicators(ioc_database, indicators)
    /\ UNCHANGED <<user_registry, device_registry, user_profiles, is_fitted,
                   device_behavior_history, access_policies, eval_pc, request, reasoning,
                   risk_score, decision, security_event, events_logged, response>>
    /\ UNCHANGED <<soarVars, scoreVars, orchVars, intelVars, writerVars, cancelVars>>

\* no playbook execution belongs to the evaluation that starts
NoExecution ==
    /\ soar_pc' = "idle"
    /\ playbook_name' = ""
    /\ incident_data' = EmptyDict
    /\ step_idx' = 1
    /\ results' = <<>>
    /\ calls' = <<>>
    /\ playbook' = Playbook("", <<>>)
    /\ exec_result' = EmptyDict

\* Mutant: the context of the request is put into the device behaviour history
\* at the start of the evaluation
RecordsContextWhileScoring(req, anomaly_score) ==
    /\ EngineAtRest
    /\ events_logged < MaxEvals
    /\ DetectAnomaliesError(req.user_id) = ""
    /\ LET identity_verification == _verify_identity(req.user_id, req.context)
           device_trust          == _assess_device_trust(req.context.device_id, req.context)
           behavior_analysis     == detect_anomalies(req.user_id, anomaly_score)
           threat_check          == check_ioc(req.context.source_ip, "ip")
           risk                  == _calculate_risk_score(identity_verification, device_trust,
                                                          behavior_analysis, threat_check)
       IN  /\ reasoning' = [identity_verification |-> identity_verification,
                            device_trust          |-> device_trust,
                            behavior_analysis     |-> behavior_analysis,
                            threat_check          |-> threat_check]
           /\ risk_score' = risk
           /\ decision' = _apply_access_policies(req, risk)
    /\ device_behavior_history' =
           Put(device_behavior_history, req.context.device_id,
               LastN(Append(IF req.context.device_id \in DOMAIN device_behavior_history
                               THEN device_behavior_history[req.context.device_id]
                               ELSE <<>>,
                            req.context), DeviceHistoryLimit))
    /\ request' = req
    /\ security_event' = EmptyDict
    /\ response' = EmptyDict
    /\ eval_pc' = "decided"
    /\ NoExecution
    /\ UNCHANGED <<user_registry, device_registry, user_profiles, is_fitted, ioc_database,
                   access_policies, events_logged>>
    /\ UNCHANGED <<playbooks, response_actions, scoreVars, orchVars, intelVars, writerVars, cancelVars>>

\* evaluate_access_request, steps 1 to 6: the four assessments, the risk
\* score and the policy decision
EvaluateScores(req, anomaly_score) ==
    /\ EngineAtRest
    /\ events_logged < MaxEvals
    /\ DetectAnomaliesError(req.user_id) = ""
    /\ LET identity_verification == _verify_identity(req.user_id, req.context)
           device_trust          == _assess_device_trust(req.context.device_id, req.context)
           behavior_analysis     == detect_anomalies(req.user_id, anomaly_score)
           threat_check          == check_ioc(req.context.source_ip, "ip")
           risk                  == _calculate_risk_score(identity_verification, device_trust,
                                                          behavior_analysis, threat_check)
       IN  /\ reasoning' = [identity_verification |-> identity_verification,
                            device_trust          |-> device_trust,
                            behavior_analysis     |-> behavior_analysis,
                            threat_check          |-> threat_check]
           /\ risk_score' = risk
           /\ decision' = _apply_access_policies(req, risk)
    /\ request' = req
    /\ security_event' = EmptyDict
    /\ response' = EmptyDict
    /\ eval_pc' = "decided"
    /\ NoExecution
    /\ UNCHANGED <<user_registry, device_registry, user_profiles, is_fitted, ioc_database,
                   device_behavior_history, access_policies, events_logged>>
    /\ UNCHANGED <<playbooks, response_actions, scoreVars, orchVars, intelVars, writerVars, cancelVars>>

\* evaluate_access_request, step 3 raising: nothing catches the exception of
\* detect_anomalies, and the caller gets it instead of a decision
EvaluateRaises(req) ==
    /\ EngineAtRest
    /\ events_logged < MaxEvals
    /\ DetectAnomaliesError(req.user_id) # ""
    /\ request' = req
    /\ reasoning' = EmptyDict
    /\ risk_score' = 0
    /\ decision' = EmptyDict
    /\ security_event' = EmptyDict
    /\ response' = [error |-> DetectAnomaliesError(req.user_id)]
    /\ eval_pc' = "raised"
    /\ NoExecution
    /\ UNCHANGED <<user_registry, device_registry, user_profiles, is_fitted, ioc_database,
                   device_behavior_history, access_policies, events_logged>>
    /\ UNCHANGED <<playbooks, response_actions, scoreVars, orchVars, intelVars, writerVars, cancelVars>>

\* Mutant: the event also carries the device of the request
EventWithDevice(req, risk, the_decision, the_reasoning, event_id) ==
    [event_id   |-> event_id,
     event_type |-> "access_request",
     severity   |-> _map_risk_to_threat_level(risk),
     source_ip  |-> req.context.source_ip,
     user_id    |-> req.user_id,
     device_id  |-> req.context.device_id,
     resource   |-> req.resource,
     action     |-> req.action,
     result     |-> the_decision.action,
     metadata   |-> [risk_score |-> risk, reasoning |-> the_reasoning],
     risk_score |-> risk]

\* SecurityEvent(...); event_id stands for secrets.token_hex(16)
SecurityEvent(req, risk, the_decision, the_reasoning, event_id) ==
    [event_id   |-> event_id,
     event_type |-> "access_request",
     severity   |-> _map_risk_to_threat_level(risk),
     source_ip  |-> req.context.source_ip,
     user_id    |-> req.user_id,
     resource   |-> req.resource,
     action     |-> req.action,
     result     |-> the_decision.action,
     metadata   |-> [risk_score |-> risk, reasoning |-> the_reasoning],
     risk_score |-> risk]

\* step 7: the event is built and given to _log_security_event
LogSecurityEvent ==
    /\ eval_pc = "decided"
    /\ security_event' = SecurityEvent(request, risk_score, decision, reasoning,
                                       events_logged + 1)
    /\ events_logged' = events_logged + 1
    /\ eval_pc' = "logged"
    /\ UNCHANGED <<user_registry, device_registry, user_profiles, is_fitted, ioc_database,
                   device_behavior_history, access_policies, request, reasoning,
                   risk_score, decision, response>>
    /\ UNCHANGED <<soarVars, scoreVars, orchVars, intelVars, writerVars, cancelVars>>

\* every risk above the threshold gets the lighter playbook
AlwaysSuspiciousActivity(severity) ==
    IF severity \in {"ThreatLevel.CRITICAL", "ThreatLevel.HIGH"}
    THEN "suspicious_activity" ELSE ""

\* _trigger_automated_response: the playbook for the event's severity, "" for none
PlaybookFor(severity) ==
    IF severity = "ThreatLevel.CRITICAL" THEN "high_risk_incident"
    ELSE IF severity = "ThreatLevel.HIGH" THEN "suspicious_activity"
    ELSE ""

\* if risk_score > 0.7: _trigger_automated_response(security_event)
Triggers == risk_score > AlertThreshold /\ PlaybookFor(security_event.severity) # ""

\* step 8 up to execute_playbook's loop: the call is made in evaluate_access_request's
\* own thread, with asdict(security_event) as the incident data
TriggerAutomatedResponse ==
    /\ eval_pc = "logged"
    /\ Triggers
    /\ BeginExecution(PlaybookFor(security_event.severity), security_event)
    /\ eval_pc' = "responding"
    /\ UNCHANGED <<user_registry, device_registry, user_profiles, is_fitted, ioc_database,
                   device_behavior_history, access_policies, request, reasoning,
                   risk_score, decision, security_event, events_logged, response>>
    /\ UNCHANGED <<playbooks, response_actions, scoreVars, orchVars, intelVars, writerVars, cancelVars>>

\* step 8 when nothing is triggered
NoAutomatedResponse ==
    /\ eval_pc = "logged"
    /\ ~Triggers
    /\ eval_pc' = "responded"
    /\ UNCHANGED <<user_registry, device_registry, user_profiles, is_fitted, ioc_database,
                   device_behavior_history, access_policies, request, reasoning,
                   risk_score, decision, security_event, events_logged, response>>
    /\ UNCHANGED <<soarVars, scoreVars, orchVars, intelVars, writerVars, cancelVars>>

\* _trigger_automated_response returns: execute_playbook has returned, or it
\* has raised and the except branch has logged the error
ResponseDone ==
    /\ eval_pc = "responding"
    /\ soar_pc \in {"returned", "raised"}
    /\ eval_pc' = "responded"
    /\ UNCHANGED <<user_registry, device_registry, user_profiles, is_fitted, ioc_database,
                   device_behavior_history, access_policies, request, reasoning,
                   risk_score, decision, security_event, events_logged, response>>
    /\ UNCHANGED <<soarVars, scoreVars, orchVars, intelVars, writerVars, cancelVars>>

\* step 9: _update_device_behavior_history
UpdateDeviceBehaviorHistory ==
    /\ eval_pc = "responded"
    /\ LET device_id == request.context.device_id
           history   == IF device_id \in DOMAIN device_behavior_history
                        THEN device_behavior_history[device_id] ELSE <<>>
       IN  device_behavior_history' =
               Put(device_behavior_history, device_id,
                   LastN(Append(history, request.context), DeviceHistoryLimit))
    /\ eval_pc' = "updated"
    /\ UNCHANGED <<user_registry, device_registry, user_profiles, is_fitted, ioc_database,
                   access_policies, request, reasoning, risk_score, decision,
                   security_event, events_logged, response>>
    /\ UNCHANGED <<soarVars, scoreVars, orchVars, intelVars, writerVars, cancelVars>>

\* the return statement of evaluate_access_request
ReturnDecision ==
    /\ eval_pc = "updated"
    /\ response' = [request_id        |-> request.request_id,
                    decision          |-> decision,
                    risk_score        |-> risk_score,
                    reasoning         |-> reasoning,
                    security_event_id |-> security_event.event_id]
    /\ eval_pc' = "returned"
    /\ UNCHANGED <<user_registry, device_registry, user_profiles, is_fitted, ioc_database,
                   device_behavior_history, access_policies, request, reasoning,
                   risk_score, decision, security_event, events_logged>>
    /\ UNCHANGED <<soarVars, scoreVars, orchVars, intelVars, writerVars, cancelVars>>

\* ZeroTrustEngine.__init__, with BehavioralAnalytics() and ThreatIntelligence();
\* the default configuration names no threat feed
InitEngine ==
    /\ user_registry = EmptyDict
    /\ device_registry = EmptyDict
    /\ user_profiles = EmptyDict
    /\ is_fitted = FALSE
    /\ ioc_database = <<>>
    /\ device_behavior_history = EmptyDict
    /\ access_policies = DefaultPolicies
    /\ eval_pc = "idle"
    /\ request = EmptyDict
    /\ reasoning = EmptyDict
    /\ risk_score = 0
    /\ decision = EmptyDict
    /\ security_event = EmptyDict
    /\ events_logged = 0
    /\ response = EmptyDict

----------------------------------------------------------------------------
\* The risk score functions applied to arguments of their types

ScoreArgsZeroTrust ==
    { [fn                    |-> "ZeroTrustEngine",
       identity_verification |-> [verified |-> v, confidence |-> c],
       device_trust          |-> [trusted |-> t, score |-> s],
       behavior_analysis     |-> [risk_score |-> b],
       threat_check          |-> th] :
        v \in BOOLEAN, c \in {0, 6000, One}, t \in BOOLEAN, s \in {0, 6100, One},
        b \in {0, 6000, One},
        th \in { [is_ioc |-> FALSE, confidence |-> 0] }
               \cup { [is_ioc |-> TRUE, threat_level |-> l, confidence |-> 9000] :
                         l \in {"high", "medium", "low"} } }

ScoreArgsMonitor ==
    { [fn                   |-> "AISecurityMonitor",
       anomalies            |-> a,
       behavioral_analysis  |-> b,
       threat_intel_matches |-> m,
       base_risk_score      |-> r] :
        a \in { <<>>,
                << [anomaly_score |-> 5000] >>,
                << [anomaly_score |-> 3000], [anomaly_score |-> One] >>,
                << [is_anomaly |-> TRUE] >> },
        b \in { [anomaly_detected |-> FALSE, risk_score |-> 0],
                [anomaly_detected |-> TRUE, risk_score |-> 3000],
                [anomaly_detected |-> TRUE, risk_score |-> One] },
        m \in { <<>>,
                << [confidence |-> 9000] >>,
                << [confidence |-> 5000], [confidence |-> One] >> },
        r \in {-5000, 0, 6000, One, 50000} }

NotScored == [done |-> FALSE]

Scored(risk) == [done |-> TRUE, risk |-> risk]

NoScoring ==
    /\ score_args = EmptyDict
    /\ score_result = NotScored

\* ZeroTrustEngine._calculate_risk_score is called
CalculateRiskScore ==
    /\ score_result = NotScored
    /\ score_args.fn = "ZeroTrustEngine"
    /\ score_result' = Scored(_calculate_risk_score(score_args.identity_verification,
                                                   score_args.device_trust,
                                                   score_args.behavior_analysis,
                                                   score_args.threat_check))
    /\ UNCHANGED <<score_args, soarVars, engineVars, orchVars, intelVars, writerVars, cancelVars>>

\* AISecurityMonitor._calculate_risk_score is called
MonitorCalculateRiskScore ==
    /\ score_result = NotScored
    /\ score_args.fn = "AISecurityMonitor"
    /\ score_result' = Scored(AISecurityMonitor_calculate_risk_score(
                                  score_args.anomalies,
                                  score_args.behavioral_analysis,
                                  score_args.threat_intel_matches,
                                  score_args.base_risk_score))
    /\ UNCHANGED <<score_args, soarVars, engineVars, orchVars, intelVars, writerVars, cancelVars>>

----------------------------------------------------------------------------
\* _apply_access_policies applied to a policy set, a request and a risk score

MaxPolicies == 3

PolicyIds == <<"policy_a", "policy_b", "policy_c", "policy_d", "policy_e">>

PolicyBodies ==
    { [conditions |-> c, actions |-> a, priority |-> p] :
        c \in { <<>>, <<"risk_score > 0.7">>, <<"role == admin", "mfa_verified">> },
        a \in { <<"allow">>, <<"deny", "alert">> },
        p \in {1, 10} }

PolicySets ==
    UNION { { [i \in 1..n |-> Policy(PolicyIds[i], PolicyIds[i], bodies[i].conditions,
                                     bodies[i].actions, bodies[i].priority)] :
                bodies \in [1..n -> PolicyBodies] } : n \in 0..MaxPolicies }

PolicyRisks == {5000, 9000}

PolicyRequest ==
    AccessRequest("r1", "alice", "/api/invoices", "read",
                  UserContext("laptop", "192.168.1.9", Home, "corporate", 9, "492039"))

\* decision = self._apply_access_policies(request, risk_score)
ApplyAccessPolicies ==
    /\ eval_pc = "scored"
    /\ decision' = _apply_access_policies(request, risk_score)
    /\ eval_pc' = "policy_applied"
    /\ UNCHANGED <<user_registry, device_registry, user_profiles, is_fitted, ioc_database,
                   device_behavior_history, access_policies, request, reasoning,
                   risk_score, security_event, events_logged, response>>
    /\ UNCHANGED <<soarVars, scoreVars, orchVars, intelVars, writerVars, cancelVars>>

----------------------------------------------------------------------------
\* ZeroTrustOrchestrator (security/advanced/zero_trust_enhancements.py).
\* orch_policies is self.policies, the dict as the sequence of its values in
\* insertion order; policy_matched is "None" for Python's None.  The
\* clock is datetime.now() in seconds since midnight; one evaluation reads it
\* once for the hour and once for the time of day, and both readings are taken
\* to be the same instant.

\* ZeroTrustPolicy(...): the fields evaluate_access_request reads
ZeroTrustPolicy(policy_id, name, rules, target_resources) ==
    [policy_id |-> policy_id, name |-> name, rules |-> rules,
     target_resources |-> target_resources]

\* datetime.strptime(text, "%H:%M").time()
ParseTime(text) ==
    CASE text = "08:00" -> 8 * 3600
      [] text = "18:00" -> 18 * 3600
      [] OTHER          -> 0

\* target in resource, for the targets and resources in use
IsSubstring(target, resource) ==
    \/ target = resource
    \/ <<target, resource>> \in { <<"/admin", "/admin/dashboard">>,
                                  <<"/dashboard", "/admin/dashboard">>,
                                  <<"/finance", "/finance/ledger">> }

ZeroTrustOrchestrator_calculate_risk_score(user_context, current_hour) ==
    LET anomaly  == IF GetOr(user_context, "behavior_anomaly", FALSE) THEN 3000 ELSE 0
        location == IF GetOr(user_context, "location_risk", 0) > 5000
                    THEN (user_context.location_risk * 2) \div 10 ELSE 0
        device   == IF GetOr(user_context, "device_trust_score", One) < 7000
                    THEN ((One - user_context.device_trust_score) * 25) \div 100 ELSE 0
        night    == IF current_hour >= 22 \/ current_hour <= 6 THEN 1000 ELSE 0
        failed   == IF GetOr(user_context, "failed_attempts", 0) > 3
                    THEN Min(3000, user_context.failed_attempts * 1000) ELSE 0
    IN  Min(One, anomaly + location + device + night + failed)

\* user_match is always True
_matches_policy_targets(policy, user_context, resource) ==
    \E k \in 1..Len(policy.target_resources) : IsSubstring(policy.target_resources[k], resource)

\* Mutant: the rules of a policy whose target matches are not looked at
RulesNotEvaluated(policy, user_context, resource, action, risk, current_time) == TRUE

\* RulePasses: one turn of the loop does not return False
_evaluate_policy_rules(policy, user_context, resource, action, risk, current_time) ==
    LET RulePasses(rule) ==
            /\ "max_risk_score" \in DOMAIN rule => ~(risk > rule.max_risk_score)
            /\ "required_auth_factors" \in DOMAIN rule =>
                   LET provided_factors == GetOr(user_context, "auth_factors", <<>>)
                       required_factors == rule.required_auth_factors
                   IN  \A k \in 1..Len(required_factors) :
                           \E j \in 1..Len(provided_factors) :
                               provided_factors[j] = required_factors[k]
            /\ "allowed_time_ranges" \in DOMAIN rule =>
                   \E k \in 1..Len(rule.allowed_time_ranges) :
                       /\ ParseTime(rule.allowed_time_ranges[k].start) <= current_time
                       /\ current_time <= ParseTime(rule.allowed_time_ranges[k].end)
    IN  \A k \in 1..Len(policy.rules) : RulePasses(policy.rules[k])

\* self.policies[policy.policy_id] = policy: a present key keeps its place
PutPolicy(ps, policy) ==
    IF \E i \in 1..Len(ps) : ps[i].policy_id = policy.policy_id
    THEN [i \in 1..Len(ps) |-> IF ps[i].policy_id = policy.policy_id THEN policy ELSE ps[i]]
    ELSE Append(ps, policy)

\* the decision dict ZeroTrustOrchestrator.evaluate_access_request returns: the
\* first policy of self.policies.items() whose targets match ends the loop,
\* whether its rules pass or not
OrchestratorDecision(user_context, resource, action, now) ==
    LET risk     == ZeroTrustOrchestrator_calculate_risk_score(user_context, now \div 3600)
        matching == {i \in 1..Len(orch_policies) :
                        _matches_policy_targets(orch_policies[i], user_context, resource)}
        first    == CHOOSE i \in matching : \A j \in matching : i <= j
    IN  IF matching = {}
        THEN [access_granted |-> FALSE, policy_matched |-> "None",
              reason |-> <<"No matching policy found - default deny">>,
              additional_auth_required |-> FALSE, risk_score |-> risk]
        ELSE IF _evaluate_policy_rules(orch_policies[first], user_context, resource, action, risk, now)
        THEN [access_granted |-> TRUE, policy_matched |-> orch_policies[first].policy_id,
              reason |-> <<"Access granted by policy: ", orch_policies[first].name>>,
              additional_auth_required |-> FALSE, risk_score |-> risk]
        ELSE [access_granted |-> FALSE, policy_matched |-> orch_policies[first].policy_id,
              reason |-> <<"Access denied by policy: ", orch_policies[first].name>>,
              additional_auth_required |-> FALSE, risk_score |-> risk]

\* ---- inputs ----

\* the sample policy of the module's main(); policies for resources it also
\* covers; and a second definition of policy_002, which replaces the first in
\* place
OrchestratorPolicyPool ==
    { ZeroTrustPolicy("policy_001", "High-Security Resource Access",
                      << [max_risk_score |-> 5000,
                          required_auth_factors |-> <<"password", "totp">>,
                          allowed_time_ranges |-> << [start |-> "08:00", end |-> "18:00"] >>] >>,
                      <<"/admin", "/finance", "/blockchain">>),
      ZeroTrustPolicy("policy_002", "Dashboard Access",
                      << [max_risk_score |-> 9000] >>, <<"/dashboard">>),
      ZeroTrustPolicy("policy_003", "Ledger Access",
                      << [required_auth_factors |-> <<"password">>] >>, <<"/finance">>),
      ZeroTrustPolicy("policy_002", "Dashboard Access", <<>>, <<"/dashboard">>) }

OrchestratorContexts ==
    { [user_id |-> "user_123", auth_factors |-> <<"password", "totp">>,
       device_trust_score |-> 9000, location_risk |-> 1000, behavior_anomaly |-> FALSE],
      [user_id |-> "user_123", auth_factors |-> <<"password", "totp">>,
       device_trust_score |-> 2000, location_risk |-> 1000, behavior_anomaly |-> TRUE,
       failed_attempts |-> 5],
      [user_id |-> "user_123", auth_factors |-> <<"password">>] }

OrchestratorResources == {"/admin/dashboard", "/finance/ledger"}

\* 03:00, 10:00 and 23:00
Clock == {3 * 3600, 10 * 3600, 23 * 3600}

\* ---- operations ----

\* ZeroTrustOrchestrator.create_policy
CreatePolicy(policy) ==
    /\ PutPolicy(orch_policies, policy) # orch_policies
    /\ orch_policies' = PutPolicy(orch_policies, policy)
    /\ UNCHANGED <<orch_call, orch_decision>>
    /\ UNCHANGED <<soarVars, engineVars, scoreVars, intelVars, writerVars, cancelVars>>

\* ZeroTrustOrchestrator.evaluate_access_request; _log_access_decision only
\* writes to the log
OrchestratorEvaluate(user_context, resource, action, now) ==
    /\ orch_call' = [user_context |-> user_context, resource |-> resource,
                     action |-> action, now |-> now]
    /\ orch_decision' = OrchestratorDecision(user_context, resource, action, now)
    /\ UNCHANGED orch_policies
    /\ UNCHANGED <<soarVars, engineVars, scoreVars, intelVars, writerVars, cancelVars>>

\* ZeroTrustOrchestrator.__init__: no policy; the configuration file holds
\* feeds and controls only
InitOrchestrator ==
    /\ orch_policies = <<>>
    /\ orch_call = EmptyDict
    /\ orch_decision = EmptyDict

----------------------------------------------------------------------------
\* ThreatIntelligence: a feed document being ingested one indicator at a time,
\* and check_ioc called at any moment

\* the 'indicators' of the feed documents received: a valid batch, and a batch
\* whose second indicator has no 'value'
FeedBatches ==
    { << [value |-> "10.0.0.5", type |-> "ip", threat_level |-> "high"],
         [value |-> "192.168.1.9", type |-> "ip"] >>,
      << [value |-> "10.0.0.5", type |-> "ip", threat_level |-> "high"],
         [type |-> "ip", threat_level |-> "high"],
         [value |-> "192.168.1.9", type |-> "ip"] >> }

\* the addresses check_ioc is asked about
LookupValues == {"10.0.0.5", "10.0.0.05", "10.0.0.77", "192.168.1.9"}

\* update_threat_intelligence has the feed's document and calls
\* _process_threat_data(data, 'ioc')
BeginIngestion(indicators) ==
    /\ feed.pc # "processing"
    /\ feed' = [pc |-> "processing", before |-> ioc_database, batch |-> indicators,
                rest |-> indicators]
    /\ UNCHANGED <<ioc_seen, engineVars, soarVars, scoreVars, orchVars, writerVars, cancelVars>>

\* one turn of the loop of _process_threat_data: the indicator is written into
\* ioc_database itself
IngestIndicator ==
    /\ feed.pc = "processing"
    /\ feed.rest # <<>>
    /\ {"value", "type"} \subseteq DOMAIN Head(feed.rest)
    /\ ioc_database' = DictPut(ioc_database, Head(feed.rest).value, IocInfo(Head(feed.rest)))
    /\ feed' = [feed EXCEPT !.rest = Tail(feed.rest)]
    /\ UNCHANGED <<user_registry, device_registry, user_profiles, is_fitted,
                   device_behavior_history, access_policies, eval_pc, request, reasoning,
                   risk_score, decision, security_event, events_logged, response>>
    /\ UNCHANGED <<ioc_seen, soarVars, scoreVars, orchVars, writerVars, cancelVars>>

\* ioc['value'] or ioc['type'] raises KeyError: the loop is left, and the except
\* clause of update_threat_intelligence logs the error
IngestionFails ==
    /\ feed.pc = "processing"
    /\ feed.rest # <<>>
    /\ ~({"value", "type"} \subseteq DOMAIN Head(feed.rest))
    /\ feed' = [feed EXCEPT !.pc = "failed"]
    /\ UNCHANGED <<ioc_seen, engineVars, soarVars, scoreVars, orchVars, writerVars, cancelVars>>

\* the loop of _process_threat_data is over
IngestionDone ==
    /\ feed.pc = "processing"
    /\ feed.rest = <<>>
    /\ feed' = [feed EXCEPT !.pc = "done"]
    /\ UNCHANGED <<ioc_seen, engineVars, soarVars, scoreVars, orchVars, writerVars, cancelVars>>

\* ThreatIntelligence.check_ioc(value, 'ip'), called when it is called
CheckIoc(value) ==
    /\ ioc_seen' = [value |-> value, result |-> check_ioc(value, "ip")]
    /\ UNCHANGED <<feed, engineVars, soarVars, scoreVars, orchVars, writerVars, cancelVars>>

InitIntel ==
    /\ feed = [pc |-> "idle", before |-> <<>>, batch |-> <<>>, rest |-> <<>>]
    /\ ioc_seen = EmptyDict

----------------------------------------------------------------------------
\* BehavioralAnalytics.update_user_profile called by several threads at once
\* for the user "alice", each call with one login time.  The method takes no
\* lock, so the calls interleave statement by statement.  profile_objs holds
\* the profile dicts that exist, profile_at is the one user_profiles["alice"]
\* is bound to (0: the key is absent), and a call's local `profile` is an
\* index into profile_objs.

MaxWriters == 2

\* self.user_profiles as the dict of values that the rest of the engine reads
ProfilesView(objs, at) == IF at = 0 THEN EmptyDict ELSE [u \in {"alice"} |-> objs[at]]

\* the statements of update_user_profile("alice", {'login_time': 2000 + w})
\* as writer w executes them, one at a time
update_user_profile(w) ==
    LET self == writers[w]
        Frame == UNCHANGED <<user_registry, device_registry, is_fitted, ioc_database,
                             device_behavior_history, access_policies, eval_pc, request,
                             reasoning, risk_score, decision, security_event,
                             events_logged, response, soarVars, scoreVars, orchVars,
                             intelVars, cancelVars>>
    IN  \* if user_id not in self.user_profiles:
        \/ /\ self.pc = "start"
           /\ writers' = [writers EXCEPT ![w].pc = IF profile_at = 0 THEN "create" ELSE "fetch"]
           /\ UNCHANGED <<profile_objs, profile_at, user_profiles>>
           /\ Frame
        \*     self.user_profiles[user_id] = {'login_times': [], ...}
        \/ /\ self.pc = "create"
           /\ profile_objs' = Append(profile_objs, EmptyProfile)
           /\ profile_at' = Len(profile_objs) + 1
           /\ user_profiles' = ProfilesView(profile_objs', profile_at')
           /\ writers' = [writers EXCEPT ![w].pc = "fetch"]
           /\ Frame
        \* profile = self.user_profiles[user_id]
        \/ /\ self.pc = "fetch"
           /\ writers' = [writers EXCEPT ![w].pc = "append", ![w].profile = profile_at]
           /\ UNCHANGED <<profile_objs, profile_at, user_profiles>>
           /\ Frame
        \* profile['login_times'].append(behavior_data['login_time'])
        \/ /\ self.pc = "append"
           /\ profile_objs' = [profile_objs EXCEPT ![self.profile].login_times =
                                   Append(@, 2000 + w)]
           /\ user_profiles' = ProfilesView(profile_objs', profile_at)
           /\ writers' = [writers EXCEPT ![w].pc = "trim"]
           /\ UNCHANGED profile_at
           /\ Frame
        \* if len(profile[key]) > 1000: ... profile[key][-1000:] is evaluated
        \/ /\ self.pc = "trim"
           /\ LET list == profile_objs[self.profile].login_times
              IN  writers' = IF Len(list) > ProfileHistoryLimit
                             THEN [writers EXCEPT ![w].pc = "assign",
                                                  ![w].slice = LastN(list, ProfileHistoryLimit)]
                             ELSE [writers EXCEPT ![w].pc = "done"]
           /\ UNCHANGED <<profile_objs, profile_at, user_profiles>>
           /\ Frame
        \*     profile[key] = <the slice>
        \/ /\ self.pc = "assign"
           /\ profile_objs' = [profile_objs EXCEPT ![self.profile].login_times = self.slice]
           /\ user_profiles' = ProfilesView(profile_objs', profile_at)
           /\ writers' = [writers EXCEPT ![w].pc = "done", ![w].slice = <<>>]
           /\ UNCHANGED profile_at
           /\ Frame

\* no call of update_user_profile is under way
NoWriters ==
    /\ writers = [w \in 1..MaxWriters |-> [pc |-> "start", profile |-> 0, slice |-> <<>>]]
    /\ profile_objs = <<>>
    /\ profile_at = 0

----------------------------------------------------------------------------
\* The caller of execute_playbook.  execute_playbook(self, playbook_name,
\* incident_data) is an ordinary method that returns when its loop has ended:
\* it has no context or cancellation parameter and reads no flag, so a request
\* to cancel is a fact about the caller only.

\* the caller asks for the execution under way to be cancelled
CancelContext ==
    /\ ~SoarAtRest
    /\ ~cancel_requested
    /\ cancel_requested' = TRUE
    /\ UNCHANGED <<soarVars, engineVars, scoreVars, orchVars, intelVars, writerVars>>

----------------------------------------------------------------------------
\* Specifications

\* a constructed ZeroTrustEngine
Init ==
    /\ InitSOAR
    /\ InitEngine
    /\ NoScoring
    /\ InitOrchestrator
    /\ InitIntel
    /\ NoWriters
    /\ cancel_requested = FALSE

\* the SOAR engine used on its own
NextSOAR ==
    \/ \E steps \in StepSeqs : CreatePlaybook(CustomPlaybook, steps)
    \/ RegisterAction
    \/ \E name \in ExecNames, data \in IncidentPool : ExecutePlaybook(name, data)
    \/ StepUnknown
    \/ StepInvoke
    \/ ActuatorReturn
    \/ ActuatorRaise
    \/ PlaybookReturn

SpecSOAR == Init /\ [][NextSOAR]_vars

\* execute_playbook is one call on one thread: once begun, its loop goes on,
\* and an actuator that has been called returns or raises
SpecSOARLive ==
    SpecSOAR /\ WF_vars(StepUnknown \/ StepInvoke \/ ActuatorReturn \/ ActuatorRaise
                           \/ PlaybookReturn)

\* the engine serving access requests; the steps of execute_playbook are those
\* of the playbook _trigger_automated_response has begun
Next ==
    \/ \E user_id \in UserPool, user_data \in UserDataPool : RegisterUser(user_id, user_data)
    \/ \E device_id \in DevicePool, device_data \in DeviceDataPool :
           RegisterDevice(device_id, device_data)
    \/ \E user_id \in ProfiledUsers, behavior_data \in BehaviorDataPool :
           UpdateUserProfile(user_id, behavior_data)
    \/ FitAnomalyDetector
    \/ \E indicators \in IndicatorBatches : ProcessThreatData(indicators)
    \/ \E req \in Requests, anomaly_score \in AnomalyScores : EvaluateScores(req, anomaly_score)
    \/ \E req \in Requests : EvaluateRaises(req)
    \/ LogSecurityEvent
    \/ TriggerAutomatedResponse
    \/ NoAutomatedResponse
    \/ StepInvoke
    \/ ActuatorReturn
    \/ PlaybookReturn
    \/ ResponseDone
    \/ UpdateDeviceBehaviorHistory
    \/ ReturnDecision

Spec == Init /\ [][Next]_vars

InitScore ==
    /\ InitSOAR
    /\ InitEngine
    /\ score_args \in ScoreArgsZeroTrust \cup ScoreArgsMonitor
    /\ score_result = NotScored
    /\ InitOrchestrator
    /\ InitIntel
    /\ NoWriters
    /\ cancel_requested = FALSE

NextScore ==
    \/ CalculateRiskScore
    \/ MonitorCalculateRiskScore

SpecScore == InitScore /\ [][NextScore]_vars

InitPolicy ==
    /\ InitSOAR
    /\ NoScoring
    /\ InitOrchestrator
    /\ InitIntel
    /\ NoWriters
    /\ cancel_requested = FALSE
    /\ user_registry = EmptyDict
    /\ device_registry = EmptyDict
    /\ user_profiles = EmptyDict
    /\ is_fitted = FALSE
    /\ ioc_database = <<>>
    /\ device_behavior_history = EmptyDict
    /\ access_policies \in PolicySets
    /\ eval_pc = "scored"
    /\ request = PolicyRequest
    /\ reasoning = EmptyDict
    /\ risk_score \in PolicyRisks
    /\ decision = EmptyDict
    /\ security_event = EmptyDict
    /\ events_logged = 0
    /\ response = EmptyDict

NextPolicy == ApplyAccessPolicies

SpecPolicy == InitPolicy /\ [][NextPolicy]_vars

\* the orchestrator given policies and access requests
NextOrchestrator ==
    \/ \E policy \in OrchestratorPolicyPool : CreatePolicy(policy)
    \/ \E user_context \in OrchestratorContexts, resource \in OrchestratorResources,
          now \in Clock : OrchestratorEvaluate(user_context, resource, "read", now)

SpecOrchestrator == Init /\ [][NextOrchestrator]_vars

\* the engine configured first and then only serving access requests: from the
\* first evaluation on nothing is registered, no profile is updated and no
\* indicator is ingested
NextRepeat ==
    \/ \E user_id \in UserPool, user_data \in UserDataPool :
           eval_pc = "idle" /\ RegisterUser(user_id, user_data)
    \/ \E device_id \in DevicePool, device_data \in DeviceDataPool :
           eval_pc = "idle" /\ RegisterDevice(device_id, device_data)
    \/ \E user_id \in ProfiledUsers, behavior_data \in BehaviorDataPool :
           eval_pc = "idle" /\ UpdateUserProfile(user_id, behavior_data)
    \/ eval_pc = "idle" /\ FitAnomalyDetector
    \/ \E indicators \in IndicatorBatches : eval_pc = "idle" /\ ProcessThreatData(indicators)
    \/ \E req \in Requests, anomaly_score \in AnomalyScores : EvaluateScores(req, anomaly_score)
    \/ \E req \in Requests : EvaluateRaises(req)
    \/ LogSecurityEvent
    \/ TriggerAutomatedResponse
    \/ NoAutomatedResponse
    \/ StepInvoke
    \/ ActuatorReturn
    \/ PlaybookReturn
    \/ ResponseDone
    \/ UpdateDeviceBehaviorHistory
    \/ ReturnDecision

SpecRepeat == Init /\ [][NextRepeat]_vars

\* ---- the histories fed with samples numbered in their order of arrival: the
\* number of the next sample is that of the list's latest entry plus one ----

MaxArrivals == 1002         \* update_user_profile calls for the user
MaxDeviceArrivals == 12     \* _update_device_behavior_history calls for the device

\* behavior_data of the k-th call: every sample has a login time, every second
\* one a location as well
NumberedSample(k) ==
    IF k % 2 = 0 THEN [login_time |-> k, location |-> Home] ELSE [login_time |-> k]

\* BehavioralAnalytics.update_user_profile("alice", the next sample)
RecordSample ==
    LET profile == IF "alice" \in DOMAIN user_profiles THEN user_profiles["alice"]
                   ELSE EmptyProfile
        k       == IF profile.login_times = <<>> THEN 1
                   ELSE profile.login_times[Len(profile.login_times)] + 1
    IN  /\ k <= MaxArrivals
        /\ user_profiles' = Put(user_profiles, "alice",
                                UpdatedProfile(profile, NumberedSample(k)))
        /\ UNCHANGED <<user_registry, device_registry, is_fitted, ioc_database,
                       device_behavior_history, access_policies, eval_pc, request,
                       reasoning, risk_score, decision, security_event, events_logged,
                       response>>
        /\ UNCHANGED <<soarVars, scoreVars, orchVars, intelVars, writerVars, cancelVars>>

\* ZeroTrustEngine._update_device_behavior_history("laptop", the next context);
\* the context's request number is carried in its hour field
RecordDeviceContext ==
    LET history == IF "laptop" \in DOMAIN device_behavior_history
                   THEN device_behavior_history["laptop"] ELSE <<>>
        k       == IF history = <<>> THEN 1 ELSE history[Len(history)].hour + 1
    IN  /\ k <= MaxDeviceArrivals
        /\ device_behavior_history' =
               Put(device_behavior_history, "laptop",
                   LastN(Append(history, UserContext("laptop", "192.168.1.9", Home,
                                                     "corporate", k, "")),
                         DeviceHistoryLimit))
        /\ UNCHANGED <<user_registry, device_registry, user_profiles, is_fitted,
                       ioc_database, access_policies, eval_pc, request, reasoning,
                       risk_score, decision, security_event, events_logged, response>>
        /\ UNCHANGED <<soarVars, scoreVars, orchVars, intelVars, writerVars, cancelVars>>

NextHistory ==
    \/ RecordSample
    \/ RecordDeviceContext

SpecHistory == Init /\ [][NextHistory]_vars

\* the threat intelligence store with ingestion and lookups interleaved
NextIntel ==
    \/ \E indicators \in FeedBatches : BeginIngestion(indicators)
    \/ IngestIndicator
    \/ IngestionFails
    \/ IngestionDone
    \/ \E value \in LookupValues : CheckIoc(value)

SpecIntel == Init /\ [][NextIntel]_vars

\* the calls start with no profile for "alice", or with one whose login_times
\* holds 1000 earlier login times, numbered 1 to 1000
InitWriters ==
    /\ InitSOAR
    /\ NoScoring
    /\ InitOrchestrator
    /\ InitIntel
    /\ cancel_requested = FALSE
    /\ writers = [w \in 1..MaxWriters |-> [pc |-> "start", profile |-> 0, slice |-> <<>>]]
    /\ \/ profile_objs = <<>> /\ profile_at = 0
       \/ /\ profile_objs = << [EmptyProfile EXCEPT
                                   !.login_times = [i \in 1..ProfileHistoryLimit |-> i]] >>
          /\ profile_at = 1
    /\ user_profiles = ProfilesView(profile_objs, profile_at)
    /\ user_registry = EmptyDict
    /\ device_registry = EmptyDict
    /\ is_fitted = FALSE
    /\ ioc_database = <<>>
    /\ device_behavior_history = EmptyDict
    /\ access_policies = DefaultPolicies
    /\ eval_pc = "idle"
    /\ request = EmptyDict
    /\ reasoning = EmptyDict
    /\ risk_score = 0
    /\ decision = EmptyDict
    /\ security_event = EmptyDict
    /\ events_logged = 0
    /\ response = EmptyDict

NextWriters == \E w \in 1..MaxWriters : update_user_profile(w)

SpecWriters == InitWriters /\ [][NextWriters]_vars

\* executions of playbooks whose caller may ask for cancellation while one runs
NextCancel ==
    \/ \E steps \in StepSeqs : ~cancel_requested /\ CreatePlaybook(CustomPlaybook, steps)
    \/ ~cancel_requested /\ RegisterAction
    \/ \E name \in ExecNames, data \in IncidentPool : ~cancel_requested /\ ExecutePlaybook(name, data)
    \/ StepUnknown
    \/ StepInvoke
    \/ ActuatorReturn
    \/ ActuatorRaise
    \/ PlaybookReturn
    \/ CancelContext

SpecCancel == Init /\ [][NextCancel]_vars

----------------------------------------------------------------------------
\* Claims about SOAREngine.execute_playbook (checked under SpecSOAR)

\* result i is the result of step i of the playbook being executed
StepOf(i) == playbook.steps[i]

\* the actuator of step i returned a dict that reports failure
ReportedFailure(i) ==
    /\ "result" \in DOMAIN results[i]
    /\ ~results[i].success

\* the actuator of step i raised
RaisedFailure(i) == "action" \notin DOMAIN results[i]

\* step i had no registered actuator
UnknownFailure(i) ==
    /\ "action" \in DOMAIN results[i]
    /\ "result" \notin DOMAIN results[i]

\* the step's flag as the playbook's author wrote it
FlagFalse(step) == "stop_on_failure" \in DOMAIN step /\ ~step.stop_on_failure

FlagTrueOrAbsent(step) == ~FlagFalse(step)

Invoked(i) == \E c \in 1..Len(calls) : calls[c].step = i

\* the execution stopped at step i: it is the last result, no later step's
\* actuator was called, and what is returned says overall_success = False
AbortedAt(i) ==
    /\ i = Len(results)
    /\ soar_pc \in {"broke", "returned"}
    /\ \A c \in 1..Len(calls) : calls[c].step <= i
    /\ soar_pc = "returned" =>
          /\ ~exec_result.overall_success
          /\ exec_result.results = results

\* the execution went on after step i: it did not break there, and once the
\* playbook has returned the next step (if any) has its result, its actuator
\* having been called when it has one
ContinuedAfter(i) ==
    /\ ~(soar_pc = "broke" /\ i = Len(results))
    /\ (soar_pc = "returned" /\ i < Len(playbook.steps)) =>
          /\ Len(results) > i
          /\ StepOf(i + 1).action \in response_actions => Invoked(i + 1)

\* C1: a step whose actuator reports failure and whose stop_on_failure flag is
\* true or absent ends the execution: it is the last recorded result, no later
\* actuator is invoked and overall_success is false (so [A(stop, fails), B, C]
\* records exactly one result).
C1_StopOnFailureAborts ==
    \A i \in 1..Len(results) :
        (ReportedFailure(i) /\ FlagTrueOrAbsent(StepOf(i))) => AbortedAt(i)

C1_Witness ==
    /\ soar_pc = "returned"
    /\ Len(playbook.steps) = 3
    /\ "stop_on_failure" \notin DOMAIN StepOf(1)
    /\ Len(results) = 1
    /\ ReportedFailure(1)
    /\ Len(exec_result.results) = 1
    /\ ~exec_result.overall_success

\* C2: a step with stop_on_failure = False whose actuator reports failure is
\* recorded and the following steps still run; overall_success is false
\* exactly when some recorded step failed.
C2_ContinueOnFailure ==
    /\ \A i \in 1..Len(results) :
          (ReportedFailure(i) /\ FlagFalse(StepOf(i))) => ContinuedAfter(i)
    /\ soar_pc = "returned" =>
          (exec_result.overall_success <=>
              ~(\E i \in 1..Len(exec_result.results) : ~exec_result.results[i].success))

C2_Witness ==
    /\ soar_pc = "returned"
    /\ Len(playbook.steps) = 2
    /\ Len(exec_result.results) = 2
    /\ ReportedFailure(1)
    /\ FlagFalse(StepOf(1))
    /\ results[2].success
    /\ Invoked(2)
    /\ ~exec_result.overall_success

\* C3: a step whose action is not registered is recorded as failed without any
\* actuator being called, execute_playbook does not raise because of it, and
\* the execution stops or goes on by that step's stop_on_failure flag.
C3_UnknownActionIsFailure ==
    /\ \A i \in 1..Len(results) :
          StepOf(i).action \notin response_actions =>
              /\ UnknownFailure(i)
              /\ ~results[i].success
              /\ ~Invoked(i)
              /\ IF FlagTrueOrAbsent(StepOf(i)) THEN AbortedAt(i) ELSE ContinuedAfter(i)
    /\ soar_pc = "raised" => playbook_name \notin DOMAIN playbooks

C3_Witness ==
    /\ soar_pc = "returned"
    /\ Len(results) = 2
    /\ StepOf(1).action \notin response_actions
    /\ FlagFalse(StepOf(1))
    /\ ~results[1].success
    /\ results[2].success

\* C4 (as claimed): a step with stop_on_failure = False whose actuator raises is
\* recorded and the remaining steps are still executed.
C4_RaiseFollowsFlag ==
    \A i \in 1..Len(results) :
        (RaisedFailure(i) /\ FlagFalse(StepOf(i))) => ContinuedAfter(i)

\* C5 (as claimed): the actuator is passed the step parameter's value for every
\* key the step configures, and the incident's value for the other keys.
C5_StepParametersWin ==
    \A c \in 1..Len(calls) :
        LET configured == StepParameters(StepOf(calls[c].step))
            passed == calls[c].parameters
        IN  /\ DOMAIN passed = DOMAIN configured \cup DOMAIN incident_data
            /\ \A k \in DOMAIN passed :
                   passed[k] = IF k \in DOMAIN configured THEN configured[k]
                                                          ELSE incident_data[k]

----------------------------------------------------------------------------
\* Claims about ZeroTrustEngine.evaluate_access_request (checked under Spec)

\* C6: evaluate_access_request does not wait for the playbook it triggers:
\* whenever an actuator of that playbook is still running, the evaluation has
\* already returned its decision.
C6_DecisionNotBlockedByPlaybook ==
    soar_pc = "in_actuator" => eval_pc = "returned"

\* step 8 of the evaluation in progress, or of the last one, is behind it
PastTrigger == eval_pc \in {"responding", "responded", "updated", "returned"}

Critical == security_event.severity = "ThreatLevel.CRITICAL"

High == security_event.severity = "ThreatLevel.HIGH"

\* C7: an evaluation whose risk exceeds 0.7 has tier critical or high and
\* executes 'high_risk_incident' for critical and 'suspicious_activity' for
\* high; an evaluation whose risk does not exceed 0.7 executes no playbook
\* and calls no actuator, the audit event being all that happens.
C7_PlaybookByRiskTier ==
    PastTrigger =>
        IF risk_score > 7000
        THEN /\ Critical \/ High
             /\ Critical => playbook_name = "high_risk_incident"
             /\ High => playbook_name = "suspicious_activity"
             /\ playbook = playbooks[playbook_name]
             /\ soar_pc # "idle"
             /\ eval_pc # "responding" =>
                   /\ soar_pc = "returned"
                   /\ exec_result.playbook_name = playbook_name
                   /\ Len(exec_result.results) = Len(playbook.steps)
        ELSE /\ soar_pc = "idle"
             /\ playbook_name = ""
             /\ calls = <<>>
             /\ results = <<>>
             /\ security_event.event_id = events_logged

C7_Witness ==
    /\ eval_pc = "returned"
    /\ response.risk_score >= 8000
    /\ Critical
    /\ exec_result.playbook_name = "high_risk_incident"
    /\ Len(exec_result.results) = 4
    /\ Len(calls) = 4

\* C8: every call of evaluate_access_request ends by returning a decision
\* whose action is allow, deny, challenge or review; none ends in an error.
C8_AlwaysReturnsDecision ==
    /\ eval_pc # "raised"
    /\ eval_pc = "returned" =>
          response.decision.action \in {"allow", "deny", "challenge", "review"}

----------------------------------------------------------------------------
\* Claim about the risk score functions (checked under SpecScore)

\* C9: whatever the identity result, device-trust result, behaviour risk and
\* threat match (in the AI monitor: anomalies, behavioural analysis,
\* threat-intelligence matches and base risk), the risk score computed is at
\* least 0 and at most 1.
C9_RiskWithinUnitInterval ==
    score_result.done => (0 <= score_result.risk /\ score_result.risk <= One)

C9_Witness ==
    /\ score_result.done
    /\ score_args.fn = "AISecurityMonitor"
    /\ score_args.base_risk_score > One
    /\ score_args.anomalies # <<>>
    /\ score_result.risk = One

----------------------------------------------------------------------------
\* Claim about _apply_access_policies (checked under SpecPolicy)

PolicyMatches(i) ==
    _evaluate_policy_conditions(access_policies[i].conditions, request, risk_score)

\* the decision is policy i's: its first action, under its id
DecidedBy(i) ==
    /\ decision.policy = access_policies[i].id
    /\ decision.action = access_policies[i].actions[1]

\* C10: when two policies both match the request, the decision returned is
\* not the one with the higher priority number: the decision is the first
\* action of a matching policy no other matching policy of which has a lower
\* priority number, and its policy id names that policy.
C10_LowerPriorityNumberWins ==
    eval_pc = "policy_applied" =>
        /\ \A i, j \in 1..Len(access_policies) :
               (PolicyMatches(i) /\ PolicyMatches(j)
                /\ access_policies[i].priority < access_policies[j].priority)
               => ~DecidedBy(j)
        /\ (\E i \in 1..Len(access_policies) : PolicyMatches(i)) =>
               \E i \in 1..Len(access_policies) : PolicyMatches(i) /\ DecidedBy(i)

C10_Witness ==
    /\ eval_pc = "policy_applied"
    /\ Len(access_policies) = 3
    /\ PolicyMatches(1) /\ PolicyMatches(3) /\ ~PolicyMatches(2)
    /\ access_policies[3].priority < access_policies[1].priority
    /\ access_policies[3].actions # access_policies[1].actions
    /\ DecidedBy(3)

Assessed == eval_pc \in {"decided", "logged", "responding", "responded", "updated"}

\* C14: for a device id that is not in the device registry the device
\* assessment is exactly trusted = false, score = 0, and for a user id that is
\* not in the user registry the identity verification is exactly
\* verified = false, confidence = 0; the evaluation goes on with these values.
C14_NotFoundAreValues ==
    Assessed =>
        /\ request.context.device_id \notin DOMAIN device_registry =>
               /\ reasoning.device_trust.trusted = FALSE
               /\ reasoning.device_trust.score = 0
        /\ request.user_id \notin DOMAIN user_registry =>
               /\ reasoning.identity_verification.verified = FALSE
               /\ reasoning.identity_verification.confidence = 0

\* an unknown user on an unknown device that already has a behaviour history
\* and whose address is a known indicator
C14_Witness ==
    /\ eval_pc = "decided"
    /\ request.user_id \notin DOMAIN user_registry
    /\ request.context.device_id \notin DOMAIN device_registry
    /\ request.context.device_id \in DOMAIN device_behavior_history
    /\ reasoning.threat_check.is_ioc
    /\ reasoning.device_trust.score = 0
    /\ reasoning.identity_verification.confidence = 0

\* C16 (as claimed): for a user who has no behaviour profile the behaviour
\* analysis gives the neutral risk score 0.5.
C16_NoProfileIsNeutral ==
    (Assessed /\ request.user_id \notin DOMAIN user_profiles)
        => reasoning.behavior_analysis.risk_score = 5000

\* the request under evaluation is by a registered user
RegisteredUser == request.user_id \in DOMAIN user_registry

\* the request under evaluation is from a registered device
RegisteredDevice == request.context.device_id \in DOMAIN device_registry

\* a registered admin whose MFA is verified, on a registered, fully compliant
\* device at one of its expected locations, with no behavioural anomaly and no
\* threat-intelligence match
TrustedRequest ==
    /\ Assessed
    /\ RegisteredUser
    /\ user_registry[request.user_id].role = "admin"
    /\ reasoning.identity_verification.factors.mfa
    /\ RegisteredDevice
    /\ LET device == device_registry[request.context.device_id]
       IN  /\ device.antivirus_installed /\ device.encryption_enabled
           /\ device.os_updated /\ device.screen_lock_enabled
           /\ \E k \in 1..Len(device.expected_locations) :
                  device.expected_locations[k] = request.context.location
    /\ ~reasoning.behavior_analysis.anomaly_detected
    /\ ~reasoning.threat_check.is_ioc

\* C17 (as claimed): a trusted request gets a risk score below 0.3 and the
\* decision action 'allow'.
C17_TrustedRequestAllowed ==
    TrustedRequest => risk_score < 3000 /\ decision.action = "allow"

\* C18 (as claimed): a request by a registered user from a device that is not
\* in the device registry gets a risk score above 0.5 and the decision action
\* 'deny' or 'challenge'.
C18_UnregisteredDeviceIsRisky ==
    (Assessed /\ RegisteredUser /\ ~RegisteredDevice)
        => risk_score > 5000 /\ decision.action \in {"deny", "challenge"}

----------------------------------------------------------------------------
\* Claims about ZeroTrustOrchestrator.evaluate_access_request (checked under
\* SpecOrchestrator)

\* the policy at place i matches the target of the request that was evaluated
TargetMatched(i) ==
    \E k \in 1..Len(orch_policies[i].target_resources) :
        IsSubstring(orch_policies[i].target_resources[k], orch_call.resource)

\* a rule of the policy at place i has a condition that is false for the
\* request that was evaluated: the risk is over the rule's ceiling, a required
\* authentication factor was not provided, or the time is outside the window
ConditionFalse(i) ==
    \E k \in 1..Len(orch_policies[i].rules) :
        LET rule == orch_policies[i].rules[k]
        IN  \/ /\ "max_risk_score" \in DOMAIN rule
               /\ orch_decision.risk_score > rule.max_risk_score
            \/ /\ "required_auth_factors" \in DOMAIN rule
               /\ \E f \in 1..Len(rule.required_auth_factors) :
                      \A j \in 1..Len(GetOr(orch_call.user_context, "auth_factors", <<>>)) :
                          orch_call.user_context.auth_factors[j] # rule.required_auth_factors[f]
            \/ /\ "allowed_time_ranges" \in DOMAIN rule
               /\ \A r \in 1..Len(rule.allowed_time_ranges) :
                      \/ orch_call.now < ParseTime(rule.allowed_time_ranges[r].start)
                      \/ orch_call.now > ParseTime(rule.allowed_time_ranges[r].end)

\* no policy whose target matched and one of whose conditions was false is the
\* policy the decision names
NoFailedPolicyDecides ==
    \A i \in 1..Len(orch_policies) :
        TargetMatched(i) /\ ConditionFalse(i) =>
            orch_decision.policy_matched # orch_policies[i].policy_id

\* C11 (as claimed): a policy whose target matches the request but one of whose
\* conditions is false does not decide the request; evaluation falls through,
\* so a later policy whose target matches and whose conditions all hold is the
\* one that decides.  Stated of every evaluation: a step that leaves the
\* policies alone is an evaluation against them.
C11_FailedConditionFallsThrough ==
    [][UNCHANGED orch_policies => NoFailedPolicyDecides']_vars

----------------------------------------------------------------------------
\* Claims about repeated evaluation (checked under SpecRepeat)

\* C13 (as claimed): evaluate_access_request called again with the identical
\* AccessRequest, straight after it returned and with the same behaviour
\* analysis, gives the risk score and the decision (action and policy) it gave
\* the first time.
C13_EvaluationIsIdempotent ==
    [][(/\ eval_pc = "returned"
        /\ eval_pc' = "decided"
        /\ request' = request
        /\ reasoning'.behavior_analysis = reasoning.behavior_analysis)
       => (/\ risk_score' = risk_score
           /\ decision'.action = decision.action
           /\ decision'.policy = decision.policy)]_vars

----------------------------------------------------------------------------
\* Claims about the bounded histories (checked under SpecHistory)

\* after is what a FIFO of the given bound holds once x has arrived at before
FifoStep(before, after, x, bound) ==
    /\ Len(after) <= bound
    /\ after = IF Len(before) < bound THEN Append(before, x)
               ELSE Append(Tail(before), x)

LoginTimes(profiles) ==
    IF "alice" \in DOMAIN profiles THEN profiles["alice"].login_times ELSE <<>>

LocationPatterns(profiles) ==
    IF "alice" \in DOMAIN profiles THEN profiles["alice"].location_patterns ELSE <<>>

DeviceHistory(histories) ==
    IF "laptop" \in DOMAIN histories THEN histories["laptop"] ELSE <<>>

\* C15: every update_user_profile call leaves each list of the user's profile
\* no longer than 1000, holding the most recent samples in arrival order: the
\* sample is appended, and the oldest entry is dropped when the list was full;
\* a list the sample has no datum for is left as it was.  The same holds for
\* the device's behaviour history with the bound 10.
C15_BoundedFifoHistories ==
    [][/\ user_profiles' # user_profiles =>
           LET n == IF LoginTimes(user_profiles) = <<>> THEN 1
                    ELSE LoginTimes(user_profiles)[Len(LoginTimes(user_profiles))] + 1
           IN  /\ FifoStep(LoginTimes(user_profiles), LoginTimes(user_profiles'), n, 1000)
               /\ IF n % 2 = 0
                  THEN FifoStep(LocationPatterns(user_profiles),
                                LocationPatterns(user_profiles'), Home, 1000)
                  ELSE LocationPatterns(user_profiles') = LocationPatterns(user_profiles)
               /\ \A key \in DOMAIN user_profiles'["alice"] :
                      Len(user_profiles'["alice"][key]) <= 1000
       /\ device_behavior_history' # device_behavior_history =>
           LET after == DeviceHistory(device_behavior_history')
           IN  FifoStep(DeviceHistory(device_behavior_history), after,
                        after[Len(after)], 10)
              /\ after[Len(after)].hour =
                     (IF DeviceHistory(device_behavior_history) = <<>> THEN 1
                      ELSE DeviceHistory(device_behavior_history)[
                               Len(DeviceHistory(device_behavior_history))].hour + 1)
      ]_vars

\* 1002 samples have arrived and the two oldest are gone; 12 contexts have
\* arrived and the two oldest are gone
C15_Witness ==
    /\ Len(LoginTimes(user_profiles)) = 1000
    /\ LoginTimes(user_profiles)[1] = 3
    /\ LoginTimes(user_profiles)[1000] = 1002
    /\ Len(DeviceHistory(device_behavior_history)) = 10
    /\ DeviceHistory(device_behavior_history)[1].hour = 3
    /\ DeviceHistory(device_behavior_history)[10].hour = 12

----------------------------------------------------------------------------
\* Claims about ThreatIntelligence (checked under SpecIntel)

\* check_ioc has just been called: ioc_seen' is the call, and ioc_database is
\* the database it read
Checked == ioc_seen' # ioc_seen

\* the value is a stored indicator
Stored(value) == \E i \in 1..Len(ioc_database) : ioc_database[i].value = value

\* how many leading octets the address has in common with the stored IP
\* indicator that has most in common with it
CommonPrefix(value) ==
    LET lengths == { LeadingMatches(ParseOctets(value), ParseOctets(ioc_database[i].value)) :
                         i \in {j \in 1..Len(ioc_database) : ioc_database[j].info.type = "ip"} }
    IN  IF lengths = {} THEN 0 ELSE CHOOSE n \in lengths : \A m \in lengths : m <= n

\* C19 (as claimed): a stored indicator is matched with confidence 0.9; an
\* address that is not stored but is in the subnet of a stored IP indicator
\* (its first three octets are those of the indicator) is matched with
\* confidence 0.7; an address that has no leading octet in common with any
\* stored indicator is not matched.
C19_FuzzySubnetMatch ==
    [][Checked =>
          LET value  == ioc_seen'.value
              result == ioc_seen'.result
          IN  /\ Stored(value) => result.is_ioc /\ result.confidence = 9000
              /\ (~Stored(value) /\ CommonPrefix(value) >= 3) =>
                     result.is_ioc /\ result.confidence = 7000
              /\ (~Stored(value) /\ CommonPrefix(value) = 0) => ~result.is_ioc
      ]_vars

\* the database as it is once the batch has been ingested whole: with every
\* indicator of the batch, or, for a batch that cannot be ingested, with none
AfterBatch ==
    IF \A k \in 1..Len(feed.batch) : {"value", "type"} \subseteq DOMAIN feed.batch[k]
    THEN ProcessIndicators(feed.before, feed.batch)
    ELSE feed.before

\* C20 (as claimed): the indicator set a check_ioc call reads is the complete
\* set before the latest feed batch or the complete set after it, also when
\* the ingestion of the batch has failed part-way.
C20_NoPartialIndicatorSet ==
    [][Checked => ioc_database \in {feed.before, AfterBatch}]_vars

----------------------------------------------------------------------------
\* Claims about concurrent profile updates (checked under SpecWriters)

\* C21 (as claimed): once every concurrent update_user_profile call for the
\* user has returned, the user's login_times holds the login time of each of
\* the calls.
C21_NoLostUpdate ==
    (\A w \in 1..MaxWriters : writers[w].pc = "done") =>
        \A w \in 1..MaxWriters :
            \E i \in 1..Len(user_profiles["alice"].login_times) :
                user_profiles["alice"].login_times[i] = 2000 + w

----------------------------------------------------------------------------
\* Claims about cancelling an execution (checked under SpecCancel)

\* C22 (as claimed): once the caller has asked for the execution to be
\* cancelled, no further step of the playbook is started: no actuator is
\* entered and no step result is added, except by the actuator call that was
\* already under way.
C22_NoStepAfterCancel ==
    [][(cancel_requested /\ soar_pc # "in_actuator") =>
           (soar_pc' # "in_actuator" /\ Len(results') = Len(results))]_vars

----------------------------------------------------------------------------
\* Claims about the engine's identity verification and risk score (checked
\* under Spec)

\* C23 (as claimed): when the second factor of a registered user is not
\* satisfied (MFA is enabled and the request carries no TOTP code or an invalid
\* one), the identity is not verified.
C23_FailedMfaIsUnverified ==
    (Assessed /\ RegisteredUser /\ ~reasoning.identity_verification.factors.mfa)
        => ~reasoning.identity_verification.verified

\* C24 (as claimed): the risk score of an assessed request is the clamped
\* weighted sum 0.2*(1 - identity confidence) + 0.4*(1 - device trust score)
\* + 0.3*behaviour risk + 0.1*threat factor, whoever the user and whatever the
\* device: an unknown user and an unregistered device count with factor 1.0.
C24_RiskIsClaimedWeightedSum ==
    Assessed =>
        LET threat == IF ~reasoning.threat_check.is_ioc THEN 0
                      ELSE CASE reasoning.threat_check.threat_level = "high"   -> 9000
                             [] reasoning.threat_check.threat_level = "medium" -> 6000
                             [] OTHER                                          -> 3000
        IN  risk_score = Clamp01(WeightedSum(<<2, 4, 3, 1>>,
                             <<One - reasoning.identity_verification.confidence,
                               One - reasoning.device_trust.score,
                               reasoning.behavior_analysis.risk_score,
                               threat>>))

----------------------------------------------------------------------------
\* Claims about the risk score functions (checked under SpecScore)

\* C25 (as claimed): the AI monitor applies each weight to the factor it is
\* defined for (0.3 anomaly, 0.3 behavioural, 0.2 threat intelligence, 0.2
\* base), whichever of the factors are present: the score is the clamped sum of
\* the present factors, each times its own weight.
C25_WeightsMeetTheirFactors ==
    (score_result.done /\ score_args.fn = "AISecurityMonitor") =>
        LET anomaly == IF score_args.anomalies = <<>> THEN 0
                       ELSE MaxSeq([i \in 1..Len(score_args.anomalies) |->
                                       GetOr(score_args.anomalies[i], "anomaly_score", 0)])
            behavioural == IF score_args.behavioral_analysis.anomaly_detected
                           THEN score_args.behavioral_analysis.risk_score ELSE 0
            threat == IF score_args.threat_intel_matches = <<>> THEN 0
                      ELSE MaxSeq([i \in 1..Len(score_args.threat_intel_matches) |->
                                      score_args.threat_intel_matches[i].confidence])
        IN  score_result.risk = Clamp01(WeightedSum(<<3, 3, 2, 2>>,
                                    <<anomaly, behavioural, threat,
                                      score_args.base_risk_score>>))

----------------------------------------------------------------------------
\* Claims about the course of a playbook execution (checked under SpecSOARLive)

\* the positions of an execution: PENDING (before the loop), RUNNING (at a
\* step or in its actuator), ABORTED (left by break), ended
ExecutionMoves ==
    { <<"idle", "loop">>, <<"idle", "raised">>,
      <<"returned", "loop">>, <<"returned", "raised">>,
      <<"raised", "loop">>,
      <<"loop", "in_actuator">>, <<"loop", "broke">>, <<"loop", "returned">>,
      <<"in_actuator", "loop">>, <<"in_actuator", "broke">>,
      <<"broke", "returned">> }

\* result i is the result of step i of the playbook
ResultsArePrefix ==
    /\ Len(results) <= Len(playbook.steps)
    /\ \A i \in 1..Len(results) :
           /\ results[i].step = playbook.steps[i].name
           /\ "action" \in DOMAIN results[i] => results[i].action = playbook.steps[i].action

\* the step the loop is at is the one after the last recorded result, and the
\* actuators were called for steps in increasing order
StepsInOrder ==
    /\ soar_pc \in {"loop", "in_actuator"} => step_idx = Len(results) + 1
    /\ \A j, k \in 1..Len(calls) : j < k => calls[j].step < calls[k].step
    /\ \A j \in 1..Len(calls) : calls[j].action = playbook.steps[calls[j].step].action

\* a returned execution whose recorded steps all succeeded has recorded every
\* step and reports overall_success
AllSucceededIsComplete ==
    (soar_pc = "returned" /\ \A i \in 1..Len(results) : results[i].success)
        => /\ Len(results) = Len(playbook.steps)
           /\ exec_result.results = results
           /\ exec_result.overall_success

\* C26: an execution moves only along PENDING -> RUNNING(step i) ->
\* RUNNING(step i+1) | ABORTED | COMPLETED; the recorded results are, in order,
\* the results of a prefix of the playbook's steps and no step is skipped or
\* repeated; when every step succeeded all steps are recorded and
\* overall_success is true; and every execution that has begun ends.
C26_ExecutionStateMachine ==
    /\ [][soar_pc' # soar_pc => <<soar_pc, soar_pc'>> \in ExecutionMoves]_vars
    /\ [](ResultsArePrefix /\ StepsInOrder /\ AllSucceededIsComplete)
    /\ (~SoarAtRest ~> SoarAtRest)

C26_Witness ==
    /\ soar_pc = "returned"
    /\ playbook_name = "high_risk_incident"
    /\ playbook = HighRiskIncident
    /\ "incident_id" \in DOMAIN incident_data
    /\ Len(results) = 4
    /\ [i \in 1..4 |-> results[i].action]
           = <<"send_alert", "block_ip", "collect_forensics", "escalate_incident">>
    /\ exec_result.overall_success

----------------------------------------------------------------------------
\* Claims about the engine's decision under the built-in policies (checked
\* under Spec)

----------------------------------------------------------------------------
\* Claims about what ZeroTrustOrchestrator grants (checked under
\* SpecOrchestrator)

\* the decision of the evaluation that was made against the stored policies
GrantedOnlyUnderSatisfiedPolicy ==
    /\ orch_decision.access_granted =>
           \E i \in 1..Len(orch_policies) :
               /\ orch_policies[i].policy_id = orch_decision.policy_matched
               /\ TargetMatched(i)
               /\ ~ConditionFalse(i)
    /\ (\A i \in 1..Len(orch_policies) : ~TargetMatched(i)) =>
           /\ ~orch_decision.access_granted
           /\ orch_decision.policy_matched = "None"
    /\ orch_decision.policy_matched
           \in {"None"} \cup {orch_policies[i].policy_id : i \in 1..Len(orch_policies)}

\* C28: in every evaluation, access is granted only under a stored policy
\* whose target occurs in the resource and all of whose rules hold (risk not
\* above max_risk_score, every required factor provided, time inside an allowed
\* range); when no policy's target matches, access is denied with
\* policy_matched None; the decision names at most one policy.  Stated of
\* every evaluation: a step that leaves the policies alone is an evaluation
\* against them.
C28_GrantNeedsSatisfiedPolicy ==
    [][(UNCHANGED orch_policies /\ orch_decision' # EmptyDict)
           => GrantedOnlyUnderSatisfiedPolicy']_vars

\* access granted by a stored policy that has rules, at the evaluation's time
C28_Witness ==
    /\ orch_decision # EmptyDict
    /\ orch_decision.access_granted
    /\ \E i \in 1..Len(orch_policies) :
           /\ orch_policies[i].policy_id = orch_decision.policy_matched
           /\ Len(orch_policies[i].rules) > 0
           /\ "allowed_time_ranges" \in DOMAIN orch_policies[i].rules[1]
           /\ TargetMatched(i)
           /\ ~ConditionFalse(i)

----------------------------------------------------------------------------
\* Claims about the playbook the engine triggers itself and about the order of
\* an evaluation's effects (checked under Spec)

\* the engine's own run of 'high_risk_incident' is over
HighRiskIncidentRan ==
    /\ eval_pc \in {"responded", "updated", "returned"}
    /\ playbook_name = "high_risk_incident"

\* C29: when evaluate_access_request has triggered 'high_risk_incident', the
\* incident data is the security event, with source_ip and user_id but without
\* device_id and incident_id; four results are recorded, send_alert and
\* block_ip as successes, collect_forensics and escalate_incident as failures;
\* overall_success is false; and the decision is still the one the policies
\* give for the request and its risk score, and it is what the caller gets.
C29_EngineTriggeredPlaybookHalfFails ==
    HighRiskIncidentRan =>
        /\ incident_data = security_event
        /\ {"source_ip", "user_id"} \subseteq DOMAIN incident_data
        /\ DOMAIN incident_data \cap {"device_id", "incident_id"} = {}
        /\ [i \in 1..Len(exec_result.results) |-> exec_result.results[i].action]
               = <<"send_alert", "block_ip", "collect_forensics", "escalate_incident">>
        /\ [i \in 1..Len(exec_result.results) |-> exec_result.results[i].success]
               = <<TRUE, TRUE, FALSE, FALSE>>
        /\ ~exec_result.overall_success
        /\ decision = _apply_access_policies(request, risk_score)
        /\ eval_pc = "returned" => response.decision = decision

C29_Witness ==
    /\ eval_pc = "returned"
    /\ playbook_name = "high_risk_incident"
    /\ incident_data = security_event
    /\ Len(exec_result.results) = 4
    /\ exec_result.results[2].success
    /\ ~exec_result.results[3].success
    /\ ~exec_result.overall_success
    /\ response.decision.action = "deny"

\* the steps of one evaluate_access_request, by the position before and after
EvaluationMoves ==
    { <<"idle", "decided">>, <<"returned", "decided">>, <<"raised", "decided">>,
      <<"idle", "raised">>, <<"returned", "raised">>,
      <<"decided", "logged">>,
      <<"logged", "responding">>, <<"logged", "responded">>,
      <<"responding", "responded">>,
      <<"responded", "updated">>,
      <<"updated", "returned">> }

\* the history of the request's device before the step
OwnDeviceHistory ==
    IF request.context.device_id \in DOMAIN device_behavior_history
    THEN device_behavior_history[request.context.device_id] ELSE <<>>

\* C30: an evaluation goes through its effects in one order: the assessments,
\* the risk score and the decision; then one security event; then, only when
\* the risk exceeds 0.7, the playbook; then the request's context is appended
\* to the history of its device; then the return.  The scores are computed
\* from the history as it was before the request, and from the scoring to the
\* return the evaluation changes no store but the device behaviour history,
\* and that one only in its step 9.
C30_OrderOfEffects ==
    /\ [][(eval_pc' # eval_pc) => (<<eval_pc, eval_pc'>> \in EvaluationMoves)]_vars
    /\ [][(eval_pc' = "decided" /\ eval_pc # "decided") =>
             (/\ UNCHANGED device_behavior_history
              /\ reasoning'.device_trust.score =
                     IF request'.context.device_id \in DOMAIN device_registry
                     THEN WeightedSum(<<4, 3, 3>>,
                              <<_check_device_compliance(
                                    device_registry[request'.context.device_id]),
                                _check_device_location(
                                    device_registry[request'.context.device_id],
                                    request'.context.location),
                                _check_device_behavior(request'.context.device_id,
                                                       request'.context)>>)
                     ELSE 0)]_vars
    /\ [][(events_logged' # events_logged) =>
             (/\ eval_pc = "decided" /\ eval_pc' = "logged"
              /\ events_logged' = events_logged + 1)]_vars
    /\ [][(eval_pc' = "logged" /\ eval_pc # "logged") =>
             (events_logged' = events_logged + 1)]_vars
    /\ [][(Len(calls') > Len(calls)) =>
             (eval_pc = "responding" /\ risk_score > 7000)]_vars
    /\ [][(device_behavior_history' # device_behavior_history) =>
             (/\ eval_pc = "responded" /\ eval_pc' = "updated"
              /\ device_behavior_history' =
                     [d \in DOMAIN device_behavior_history \cup {request.context.device_id} |->
                         IF d = request.context.device_id
                         THEN IF Len(OwnDeviceHistory) < 10
                              THEN Append(OwnDeviceHistory, request.context)
                              ELSE Append(Tail(OwnDeviceHistory), request.context)
                         ELSE device_behavior_history[d]])]_vars
    /\ [][(~EngineAtRest \/ eval_pc' = "decided") =>
             UNCHANGED <<user_registry, device_registry, user_profiles, is_fitted,
                         ioc_database, access_policies, playbooks, response_actions>>]_vars

\* a returned evaluation of risk above 0.7 whose playbook called actuators and
\* the context of which is the last entry of its device's history
C30_Witness ==
    /\ eval_pc = "returned"
    /\ risk_score > 7000
    /\ events_logged >= 1
    /\ Len(calls) > 0
    /\ Len(OwnDeviceHistory) > 0
    /\ OwnDeviceHistory[Len(OwnDeviceHistory)] = request.context

====
